---------------------------- MODULE Spec2Model ----------------------------
(***************************************************************************)
(* A model of eit-cache: the in-process TTL store (adapter.go), the cache  *)
(* manager and its generic cache-aside Query (manager.go), the ticket      *)
(* check, the monitor (monitor.go) and the pagination codec with           *)
(* QueryWithPagination and InvalidateCacheOnUpdate (pagination.go).        *)
(*                                                                         *)
(* Time is a global integer clock `now` (>= 1); the zero time.Time is 0.   *)
(* Every API call is run by a caller p as a sequence of steps, one step    *)
(* per lock region / clock read of the code, so that the clock may advance *)
(* and other callers may act between the steps.                            *)
(***************************************************************************)
EXTENDS Integers, Sequences, FiniteSets, TLC

(***************************************************************************)
(* Bounds of the model.                                                    *)
(***************************************************************************)
MaxTime == 3        \* the clock runs 1..MaxTime
MaxTTL == 1         \* TTL arguments and default TTLs are drawn from -1..MaxTTL
MaxCalls == 2       \* API calls started in one behaviour
MaxRecords == 4     \* monitor records made between two Resets

ZeroTime == 0       \* time.Time{} : IsZero()

Callers == {"c1"}           \* the callers that act under Spec
AllCallers == {"c1", "c2"}  \* the callers that act under the concurrent specification

K1 == <<"u", ":", "1">>
K2 == <<"u", ":", "2">>
Keys == {K1, K2}

TTLs == (0 - 1)..MaxTTL
DefaultTTLs == 0..MaxTTL

(***************************************************************************)
(* Values and their JSON encoding.  A value is of the result type T of     *)
(* Query / the dest type of Manager.Get ("T"), or an int64 ("int").  The   *)
(* T value "NaN" stands for a value encoding/json refuses to encode.       *)
(***************************************************************************)
TVal(x) == [type |-> "T", s |-> x, n |-> 0]
IntVal(k) == [type |-> "int", s |-> "", n |-> k]
ZeroT == TVal("")                      \* var zero T
Unencodable == TVal("NaN")
TValues == {TVal("a"), TVal("b")}
SetValues == TValues \cup {IntVal(7), Unencodable}
ProducerValues == TValues \cup {Unencodable}
ProducerErrs == {"errDB", "errTimeout"}

NoErr == "nil"

DigitChars == <<"0", "1", "2", "3", "4", "5", "6", "7", "8", "9">>

\* the decimal digits of k >= 0, as characters
RECURSIVE Digits(_)
Digits(k) ==
  IF k < 10 THEN <<DigitChars[k + 1]>> ELSE Digits(k \div 10) \o <<DigitChars[(k % 10) + 1]>>

\* json.Marshal: the payload bytes, or an error
Marshal(v) ==
  IF v.type = "T"
    THEN IF v.s = "NaN" THEN [err |-> "marshal", payload |-> <<>>]
         ELSE [err |-> NoErr, payload |-> <<"{", v.s, "}">>]
    ELSE [err |-> NoErr,
          payload |-> IF v.n < 0 THEN <<"-">> \o Digits(0 - v.n) ELSE Digits(v.n)]

\* json.Unmarshal(data, &t) for t of type T: only a JSON object decodes
UnmarshalT(data) ==
  IF Len(data) = 3 /\ data[1] = "{" /\ data[3] = "}"
    THEN [err |-> NoErr, val |-> TVal(data[2])]
    ELSE [err |-> "unmarshal", val |-> ZeroT]

(***************************************************************************)
(* The store's entries (memoryEntry) and the nil payload.                  *)
(***************************************************************************)
NoEntry == [present |-> FALSE, data |-> <<>>, expireAt |-> ZeroTime]
Entry(d, e) == [present |-> TRUE, data |-> d, expireAt |-> e]

VARIABLES
  now,          \* time.Now()
  adapterType,  \* CacheConfig.Type: "memory" or "redis"
  adapterTTL,   \* MemoryCacheAdapter.defaultTTL / RedisCacheAdapter.config.DefaultTTL
  mgrTTL,       \* Manager.defaultTTL
  cache,        \* MemoryCacheAdapter.cache : key -> entry
  hits,         \* Monitor.metrics.HitCount
  misses,       \* Monitor.metrics.MissCount
  pc,           \* each caller's position
  call,         \* each caller's current (or last) call and its arguments
  ctx,          \* whether the call's context is cancelled
  snap,         \* the entry a Get read under the read lock / the entry a Set is about to store
  ret,          \* what the call returned
  stat,         \* what the call did (history of the call)
  prev,         \* the call the caller completed before this one (history)
  lastWrite,    \* per key, the last Set/Delete applied to the map (history)
  calls,        \* number of calls started
  ops,          \* the store operations completed so far, in the order of the lock (history)
  mon,          \* Monitor.tracker, AvgResponseTime and LastUpdate; the Record calls made
                \* since the last Reset and the last HitRatio read (history)
  pg            \* the arguments and results of the pagination codec's functions

vars == <<now, adapterType, adapterTTL, mgrTTL, cache, hits, misses, pc, call, ctx,
          snap, ret, stat, prev, lastWrite, calls, ops, mon, pg>>


(***************************************************************************)
(* Tickets (CacheTicket): WithTicket(nil) and no WithTicket both leave     *)
(* options.Ticket nil.                                                     *)
(***************************************************************************)
NoTicket == [given |-> FALSE, token |-> "", expiresAt |-> ZeroTime]
Ticket(tok, e) == [given |-> TRUE, token |-> tok, expiresAt |-> e]
Tickets == {NoTicket, Ticket("", 1), Ticket("tok", 1), Ticket("tok", 2)}

\* options.Ticket is not read after the validation.  The history of a call keeps the
\* ticket only if it is one that must be refused at instant t: a ticket with an empty
\* token, or one whose ExpiresAt is before t.
Refused(tk, t) == tk.given /\ (tk.token = "" \/ t > tk.expiresAt)
Kept(tk, t) == IF Refused(tk, t) THEN tk ELSE NoTicket

ErrInvalidTicket == "invalid ticket"
ErrTicketExpired == "ticket expired"
ErrDriver == "driver"        \* an error of the remote store's client
ErrCanceled == "context canceled"

\* a Validate that forgets the expiry check
ValidateTokenOnly(tk, t) == IF tk.token = "" THEN ErrInvalidTicket ELSE NoErr

\* CacheTicket.Validate at instant t
Validate(tk, t) ==
  IF tk.token = "" THEN ErrInvalidTicket
  ELSE IF t > tk.expiresAt THEN ErrTicketExpired
  ELSE NoErr

(***************************************************************************)
(* The adapter's pure parts.                                               *)
(***************************************************************************)
\* an expiry check that is off by one: !time.Now().Before(entry.expireAt)
ExpiredAtExpiry(e, t) == e.expireAt # ZeroTime /\ t >= e.expireAt

\* !entry.expireAt.IsZero() && time.Now().After(entry.expireAt)
Expired(e, t) == e.expireAt # ZeroTime /\ t > e.expireAt

\* Manager.Set: if ttl == 0 { ttl = m.defaultTTL }
ManagerSetTTL(ttl) == IF ttl = 0 THEN mgrTTL ELSE ttl

\* MemoryCacheAdapter.Set / RedisCacheAdapter.Set: if ttl == 0 { ttl = defaultTTL }
AdapterSetTTL(ttl) == IF ttl = 0 THEN adapterTTL ELSE ttl

\* var expireAt time.Time; if ttl > 0 { expireAt = time.Now().Add(ttl) }
ExpireAt(ttl, t) == IF ttl > 0 THEN t + ttl ELSE ZeroTime

\* Adapter.Set up to the write lock: the marshal error, or the entry to store
AdapterSetPrepare(v, ttl, t) ==
  LET m == Marshal(v)
  IN  IF m.err # NoErr
        THEN [err |-> m.err, entry |-> NoEntry]
        ELSE [err |-> NoErr, entry |-> Entry(m.payload, ExpireAt(AdapterSetTTL(ttl), t))]

\* a Get without the expiry check
AdapterGetNoExpiry(e, t) ==
  IF ~e.present THEN [found |-> FALSE, data |-> <<>>, delete |-> FALSE]
  ELSE [found |-> TRUE, data |-> e.data, delete |-> FALSE]

\* MemoryCacheAdapter.Get after the read lock: e is the entry read, t is time.Now().
\* found is "data != nil"; delete is whether delete(m.cache, key) runs.
AdapterGet(e, t) ==
  IF ~e.present THEN [found |-> FALSE, data |-> <<>>, delete |-> FALSE]
  ELSE IF Expired(e, t) THEN [found |-> FALSE, data |-> <<>>, delete |-> TRUE]
  ELSE [found |-> TRUE, data |-> e.data, delete |-> FALSE]

\* Whether an adapter call of caller p ends with the driver's error instead of
\* acting: never for the in-process store; for the remote store at any time, and
\* always once the call's context is cancelled.
FaultsOf(cancelled) ==
  IF adapterType = "redis" THEN (IF cancelled THEN {TRUE} ELSE BOOLEAN) ELSE {FALSE}

Faults(p) == FaultsOf(ctx[p])

(***************************************************************************)
(* Query's decisions.                                                      *)
(***************************************************************************)
\* options.TTL after the options are applied: TTL: manager.defaultTTL, then WithTTL
OptionsTTL(withTTL, t) == IF withTTL THEN t ELSE mgrTTL

\* the write-back always made with the manager's default TTL
QuerySetTTLDefault(optTTL) == mgrTTL

\* ttl := options.TTL; if ttl == 0 { ttl = manager.defaultTTL }
QuerySetTTL(optTTL) == IF optTTL = 0 THEN mgrTTL ELSE optTTL

\* err == nil && data != nil
QueryGotData(getErr, found) == getErr = NoErr /\ found

\* a Query that records every lookup as a miss
QueryRecordMiss(getErr, found) == "miss"

\* what Query records in the monitor after adapter.Get
QueryRecord(getErr, found) == IF QueryGotData(getErr, found) THEN "hit" ELSE "miss"

\* a Query that never returns on a hit
QueryNeverServesCached(getErr, found, data) == FALSE

\* a Query that returns cached whatever json.Unmarshal says
QueryServesUndecoded(getErr, found, data) == QueryGotData(getErr, found)

\* whether Query returns the cached value: data came back and json.Unmarshal took it
QueryServesCached(getErr, found, data) ==
  QueryGotData(getErr, found) /\ UnmarshalT(data).err = NoErr

\* a Query that writes back whatever queryFunc returned
QueryWritesOnFailure(prodErr, useCache) == useCache

\* whether Query calls adapter.Set after queryFunc returned prodErr
QueryWrites(prodErr, useCache) == prodErr = NoErr /\ useCache

\* a Query that returns the error of adapter.Set
QueryReturnSetErr(v, prodErr, setErr) ==
  IF prodErr # NoErr THEN [err |-> prodErr, val |-> ZeroT]
  ELSE IF setErr # NoErr THEN [err |-> setErr, val |-> ZeroT]
  ELSE [err |-> NoErr, val |-> v]

\* what Query returns after queryFunc returned (v, prodErr): setErr is dropped
QueryReturn(v, prodErr, setErr) ==
  IF prodErr # NoErr THEN [err |-> prodErr, val |-> ZeroT]
  ELSE [err |-> NoErr, val |-> v]

(***************************************************************************)
(* Records of a call.                                                      *)
(***************************************************************************)
NoCall == [op |-> "none", key |-> K1, value |-> ZeroT, ttlArg |-> 0, withTTL |-> FALSE,
           ttl |-> 0, useCache |-> FALSE, ticket |-> NoTicket]
NoRet == [err |-> NoErr, val |-> ZeroT, hit |-> FALSE, src |-> "none"]
NoStat == [hadEntry |-> FALSE, gets |-> 0, sets |-> 0, recs |-> 0, prod |-> 0,
           prodErr |-> NoErr, prodVal |-> ZeroT, got |-> "none", setErr |-> NoErr,
           at |-> ZeroTime, h0 |-> 0, m0 |-> 0, setTTL |-> 0]

\* What is remembered of the call a caller completed before its current one: whether
\* it was a Query with caching on that found its key absent and whose producer
\* succeeded (fill), its key and result, whether its write-back was stored, and the
\* monitor's counters when it started.
NoPrev == [fill |-> FALSE, key |-> K1, val |-> ZeroT, prodVal |-> ZeroT, prod |-> 0,
           stored |-> FALSE, at |-> ZeroTime, ttl |-> 0, h0 |-> 0, m0 |-> 0]
Remember(c, r, st) ==
  IF c.op = "Query" /\ c.useCache /\ ~c.ticket.given /\ ~st.hadEntry /\ r.err = NoErr
    THEN [fill |-> TRUE, key |-> c.key, val |-> r.val, prodVal |-> st.prodVal,
          prod |-> st.prod, stored |-> (st.sets = 1 /\ st.setErr = NoErr),
          at |-> st.at, ttl |-> IF c.ttl # 0 THEN c.ttl ELSE mgrTTL,
          h0 |-> st.h0, m0 |-> st.m0]
    ELSE NoPrev

\* what a finished adapter.Get of the in-process store came back with: nothing, a
\* payload that decodes into T, or a payload that does not
Got(g) ==
  IF ~g.found THEN "nil" ELSE IF UnmarshalT(g.data).err = NoErr THEN "data" ELSE "junk"
NoWrite == [kind |-> "none", val |-> ZeroT, at |-> ZeroTime, ttlArg |-> 0, via |-> "none"]

Begin(p, c) ==
  /\ pc[p] = "idle"
  /\ calls < MaxCalls
  /\ calls' = calls + 1
  /\ call' = [call EXCEPT ![p] = c]
  /\ prev' = [prev EXCEPT ![p] = Remember(call[p], ret[p], stat[p])]

StartStat(p, k) ==
  [NoStat EXCEPT !.hadEntry = cache[k].present, !.h0 = hits, !.m0 = misses]

\* NewMonitor(): nothing recorded, no ratio read
NoMon == [h |-> 0, m |-> 0, ratio |-> <<0, 1>>, read |-> FALSE, readH |-> 0, readM |-> 0,
          tracker |-> <<>>, avg |-> 0, lastUpdate |-> 1]

\* no call of the pagination codec made
NoPg == <<>>

\* NewManager(&CacheConfig{Type: type, DefaultTTL: d}), at instant 1
Constructed(type) ==
  /\ now = 1
  /\ adapterType = type
  /\ adapterTTL \in DefaultTTLs
  /\ mgrTTL = adapterTTL
  /\ cache = [k \in Keys |-> NoEntry]
  /\ hits = 0
  /\ misses = 0
  /\ pc = [p \in AllCallers |-> "idle"]
  /\ call = [p \in AllCallers |-> NoCall]
  /\ ctx = [p \in AllCallers |-> FALSE]
  /\ snap = [p \in AllCallers |-> NoEntry]
  /\ ret = [p \in AllCallers |-> NoRet]
  /\ stat = [p \in AllCallers |-> NoStat]
  /\ prev = [p \in AllCallers |-> NoPrev]
  /\ lastWrite = [k \in Keys |-> NoWrite]
  /\ calls = 0
  /\ ops = <<>>
  /\ mon = NoMon
  /\ pg = NoPg

Init == Constructed("memory")

InitRemote == Constructed("redis")

\* time passes, as long as some call may still read the clock
Tick ==
  /\ now < MaxTime
  /\ calls < MaxCalls \/ \E p \in AllCallers : pc[p] # "idle"
  /\ now' = now + 1
  /\ UNCHANGED <<ops, mon, pg, adapterType, adapterTTL, mgrTTL, cache, hits, misses, pc, call, ctx,
                 snap, ret, stat, prev, lastWrite, calls>>

(***************************************************************************)
(* Manager.Set -> Adapter.Set.  The first step marshals the value and      *)
(* reads the clock; the second stores the entry under the write lock.      *)
(***************************************************************************)
StartSet(p) ==
  \E k \in Keys, v \in SetValues, ttl \in TTLs :
    LET r == AdapterSetPrepare(v, ManagerSetTTL(ttl), now)
    IN  /\ Begin(p, [NoCall EXCEPT !.op = "Set", !.key = k, !.value = v, !.ttlArg = ttl])
        /\ ctx' = [ctx EXCEPT ![p] = FALSE]
        /\ stat' = [stat EXCEPT ![p] = [StartStat(p, k) EXCEPT !.sets = 1, !.at = now,
                                                              !.setErr = r.err]]
        /\ snap' = [snap EXCEPT ![p] = r.entry]
        /\ ret' = [ret EXCEPT ![p] = [NoRet EXCEPT !.err = r.err]]
        /\ pc' = [pc EXCEPT ![p] = IF r.err = NoErr THEN "set_store" ELSE "idle"]
        /\ UNCHANGED <<ops, mon, pg, now, adapterType, adapterTTL, mgrTTL, cache, hits, misses, lastWrite>>

\* a store that keeps the entry a key already has
StoreIfAbsent(p, via) ==
  LET k == call[p].key
  IN  /\ cache' = IF cache[k].present THEN cache ELSE [cache EXCEPT ![k] = snap[p]]
      /\ lastWrite' = [lastWrite EXCEPT ![k] =
                         [kind |-> "set", val |-> call[p].value, at |-> stat[p].at,
                          ttlArg |-> call[p].ttlArg, via |-> via]]

\* m.mu.Lock(); m.cache[key] = &memoryEntry{...}; m.mu.Unlock()
Store(p, via) ==
  LET k == call[p].key
  IN  /\ cache' = [cache EXCEPT ![k] = snap[p]]
      /\ lastWrite' = [lastWrite EXCEPT ![k] =
                         [kind |-> "set", val |-> call[p].value, at |-> stat[p].at,
                          ttlArg |-> call[p].ttlArg, via |-> via]]

SetStore(p) ==
  /\ pc[p] = "set_store"
  /\ \E fault \in Faults(p) :
       IF fault
         THEN /\ ret' = [ret EXCEPT ![p] = [NoRet EXCEPT !.err = ErrDriver]]
              /\ stat' = [stat EXCEPT ![p].setErr = ErrDriver]
              /\ UNCHANGED <<cache, lastWrite>>
         ELSE /\ Store(p, "Set")
              /\ UNCHANGED <<ret, stat>>
  /\ pc' = [pc EXCEPT ![p] = "idle"]
  /\ snap' = [snap EXCEPT ![p] = NoEntry]
  /\ UNCHANGED <<ops, mon, pg, now, adapterType, adapterTTL, mgrTTL, hits, misses, call, ctx, prev, calls>>

(***************************************************************************)
(* Manager.Get -> Adapter.Get, then json.Unmarshal into dest.  The first   *)
(* step reads the entry under the read lock; the second reads the clock,   *)
(* deletes the key under the write lock if the entry read is expired, and  *)
(* returns.                                                                *)
(***************************************************************************)
StartGet(p) ==
  \E k \in Keys :
    /\ Begin(p, [NoCall EXCEPT !.op = "Get", !.key = k])
    /\ ctx' = [ctx EXCEPT ![p] = FALSE]
    /\ stat' = [stat EXCEPT ![p] = [StartStat(p, k) EXCEPT !.gets = 1]]
    /\ snap' = [snap EXCEPT ![p] = cache[k]]
    /\ ret' = [ret EXCEPT ![p] = NoRet]
    /\ pc' = [pc EXCEPT ![p] = "get_check"]
    /\ UNCHANGED <<ops, mon, pg, now, adapterType, adapterTTL, mgrTTL, cache, hits, misses, lastWrite>>

\* Manager.Get's result from Adapter.Get's (data, err)
ManagerGetReturn(getErr, found, data) ==
  IF getErr # NoErr \/ ~found THEN [NoRet EXCEPT !.err = getErr]
  ELSE LET u == UnmarshalT(data)
       IN  IF u.err # NoErr THEN [NoRet EXCEPT !.err = u.err]
           ELSE [err |-> NoErr, val |-> u.val, hit |-> TRUE, src |-> "cache"]

GetCheck(p) ==
  /\ pc[p] = "get_check"
  /\ \E fault \in Faults(p) :
       LET g == AdapterGet(snap[p], now)
           k == call[p].key
       IN  IF fault
             THEN /\ ret' = [ret EXCEPT ![p] = ManagerGetReturn(ErrDriver, FALSE, <<>>)]
                  /\ stat' = [stat EXCEPT ![p].got = "err", ![p].at = now]
                  /\ UNCHANGED cache
             ELSE /\ ret' = [ret EXCEPT ![p] = ManagerGetReturn(NoErr, g.found, g.data)]
                  /\ stat' = [stat EXCEPT ![p].got = Got(g), ![p].at = now]
                  /\ cache' = IF g.delete THEN [cache EXCEPT ![k] = NoEntry] ELSE cache
  /\ pc' = [pc EXCEPT ![p] = "idle"]
  /\ snap' = [snap EXCEPT ![p] = NoEntry]
  /\ UNCHANGED <<ops, mon, pg, now, adapterType, adapterTTL, mgrTTL, hits, misses, call, ctx, prev,
                 lastWrite, calls>>

(***************************************************************************)
(* Manager.Delete -> Adapter.Delete of one key, under the write lock.      *)
(***************************************************************************)
Delete(p) ==
  \E k \in Keys, fault \in FaultsOf(FALSE) :
    /\ Begin(p, [NoCall EXCEPT !.op = "Delete", !.key = k])
    /\ ctx' = [ctx EXCEPT ![p] = FALSE]
    /\ stat' = [stat EXCEPT ![p] = StartStat(p, k)]
    /\ IF fault
         THEN /\ ret' = [ret EXCEPT ![p] = [NoRet EXCEPT !.err = ErrDriver]]
              /\ UNCHANGED <<cache, lastWrite>>
         ELSE /\ ret' = [ret EXCEPT ![p] = NoRet]
              /\ cache' = [cache EXCEPT ![k] = NoEntry]
              /\ lastWrite' = [lastWrite EXCEPT ![k] = [NoWrite EXCEPT !.kind = "delete"]]
    /\ UNCHANGED <<ops, mon, pg, now, adapterType, adapterTTL, mgrTTL, hits, misses, pc, snap>>

(***************************************************************************)
(* Query[T](ctx, manager, key, queryFunc, opts...).                        *)
(*   StartQuery  applies the options, validates the ticket and, with       *)
(*               caching on, enters adapter.Get (the read under the read   *)
(*               lock);                                                    *)
(*   QCheck      finishes adapter.Get (clock read, lazy delete), records   *)
(*               the hit or miss and returns the cached value or goes on;  *)
(*   QProduce    calls queryFunc and, on success with caching on, enters   *)
(*               adapter.Set (marshal, clock read);                        *)
(*   QStore      stores the entry under the write lock and returns.        *)
(***************************************************************************)
StartQuery(p) ==
  \E k \in Keys, withTTL \in BOOLEAN, t \in TTLs, useCache \in BOOLEAN,
     tk \in Tickets, cancelled \in BOOLEAN :
    LET terr == IF tk.given THEN Validate(tk, now) ELSE NoErr
    IN  /\ withTTL \/ t = 0
        /\ Begin(p, [NoCall EXCEPT !.op = "Query", !.key = k, !.withTTL = withTTL,
                                   !.ttlArg = t, !.ttl = OptionsTTL(withTTL, t),
                                   !.useCache = useCache, !.ticket = Kept(tk, now)])
        /\ ctx' = [ctx EXCEPT ![p] = cancelled]
        /\ ret' = [ret EXCEPT ![p] = [NoRet EXCEPT !.err = terr]]
        /\ IF terr # NoErr
             THEN /\ pc' = [pc EXCEPT ![p] = "idle"]
                  /\ stat' = [stat EXCEPT ![p] = StartStat(p, k)]
                  /\ snap' = [snap EXCEPT ![p] = NoEntry]
             ELSE IF useCache
               THEN /\ pc' = [pc EXCEPT ![p] = "q_check"]
                    /\ stat' = [stat EXCEPT ![p] = [StartStat(p, k) EXCEPT !.gets = 1]]
                    /\ snap' = [snap EXCEPT ![p] = cache[k]]
               ELSE /\ pc' = [pc EXCEPT ![p] = "q_produce"]
                    /\ stat' = [stat EXCEPT ![p] = StartStat(p, k)]
                    /\ snap' = [snap EXCEPT ![p] = NoEntry]
        /\ UNCHANGED <<ops, mon, pg, now, adapterType, adapterTTL, mgrTTL, cache, hits, misses, lastWrite>>

QCheck(p) ==
  /\ pc[p] = "q_check"
  /\ \E fault \in Faults(p) :
       LET g == AdapterGet(snap[p], now)
           k == call[p].key
           getErr == IF fault THEN ErrDriver ELSE NoErr
           found == ~fault /\ g.found
           rec == QueryRecord(getErr, found)
       IN  /\ cache' = IF ~fault /\ g.delete THEN [cache EXCEPT ![k] = NoEntry] ELSE cache
           /\ hits' = IF rec = "hit" THEN hits + 1 ELSE hits
           /\ misses' = IF rec = "miss" THEN misses + 1 ELSE misses
           /\ stat' = [stat EXCEPT ![p].got = IF fault THEN "err" ELSE Got(g),
                                   ![p].at = now,
                                   ![p].recs = stat[p].recs + 1]
           /\ IF QueryServesCached(getErr, found, g.data)
                THEN /\ ret' = [ret EXCEPT ![p] = [err |-> NoErr, val |-> UnmarshalT(g.data).val,
                                                   hit |-> TRUE, src |-> "cache"]]
                     /\ pc' = [pc EXCEPT ![p] = "idle"]
                ELSE /\ ret' = ret
                     /\ pc' = [pc EXCEPT ![p] = "q_produce"]
  /\ snap' = [snap EXCEPT ![p] = NoEntry]
  /\ UNCHANGED <<ops, mon, pg, now, adapterType, adapterTTL, mgrTTL, call, ctx, prev, lastWrite, calls>>

\* what queryFunc may return: (value, nil), or (anything, err)
ProducerOutcomes(p) ==
  [err : {NoErr}, val : ProducerValues]
    \cup [err : ProducerErrs \cup (IF ctx[p] THEN {ErrCanceled} ELSE {}),
          val : {ZeroT, TVal("a")}]

QProduce(p) ==
  /\ pc[p] = "q_produce"
  /\ \E out \in ProducerOutcomes(p) :
       LET r == AdapterSetPrepare(out.val, QuerySetTTL(call[p].ttl), now)
           writes == QueryWrites(out.err, call[p].useCache)
           q == QueryReturn(out.val, out.err, IF writes THEN r.err ELSE NoErr)
           st == [stat[p] EXCEPT !.prod = stat[p].prod + 1, !.prodErr = out.err, !.at = now,
                                 !.prodVal = IF out.err = NoErr THEN out.val ELSE ZeroT,
                                 !.setTTL = IF writes THEN QuerySetTTL(call[p].ttl) ELSE 0]
       IN  IF writes /\ r.err = NoErr
             THEN /\ pc' = [pc EXCEPT ![p] = "q_store"]
                  /\ snap' = [snap EXCEPT ![p] = r.entry]
                  /\ call' = [call EXCEPT ![p].value = out.val]
                  /\ stat' = [stat EXCEPT ![p] = [st EXCEPT !.sets = 1]]
                  /\ ret' = ret
             ELSE /\ pc' = [pc EXCEPT ![p] = "idle"]
                  /\ snap' = snap
                  /\ call' = call
                  /\ stat' = [stat EXCEPT ![p] =
                                IF writes THEN [st EXCEPT !.sets = 1, !.setErr = r.err] ELSE st]
                  /\ ret' = [ret EXCEPT ![p] = [err |-> q.err, val |-> q.val, hit |-> FALSE,
                                                src |-> "producer"]]
  /\ UNCHANGED <<ops, mon, pg, now, adapterType, adapterTTL, mgrTTL, cache, hits, misses, ctx, prev,
                 lastWrite, calls>>

QStore(p) ==
  /\ pc[p] = "q_store"
  /\ \E fault \in Faults(p) :
       LET setErr == IF fault THEN ErrDriver ELSE NoErr
           q == QueryReturn(stat[p].prodVal, stat[p].prodErr, setErr)
       IN  /\ IF fault THEN UNCHANGED <<cache, lastWrite>> ELSE Store(p, "Query")
           /\ stat' = [stat EXCEPT ![p].setErr = setErr]
           /\ ret' = [ret EXCEPT ![p] = [err |-> q.err, val |-> q.val, hit |-> FALSE,
                                         src |-> "producer"]]
  /\ pc' = [pc EXCEPT ![p] = "idle"]
  /\ snap' = [snap EXCEPT ![p] = NoEntry]
  /\ UNCHANGED <<ops, mon, pg, now, adapterType, adapterTTL, mgrTTL, hits, misses, call, ctx, prev, calls>>

\* the context of a running Query is cancelled
Cancel(p) ==
  /\ pc[p] \in {"q_check", "q_produce", "q_store"}
  /\ ~ctx[p]
  /\ ctx' = [ctx EXCEPT ![p] = TRUE]
  /\ UNCHANGED <<ops, mon, pg, now, adapterType, adapterTTL, mgrTTL, cache, hits, misses, pc, call,
                 snap, ret, stat, prev, lastWrite, calls>>

Step(p) ==
  \/ StartSet(p)
  \/ SetStore(p)
  \/ StartGet(p)
  \/ GetCheck(p)
  \/ Delete(p)
  \/ StartQuery(p)
  \/ QCheck(p)
  \/ QProduce(p)
  \/ QStore(p)
  \/ Cancel(p)

Next == Tick \/ \E p \in Callers : Step(p)

\* a manager over the in-process store
Spec == Init /\ [][Next]_vars

\* a manager over the remote store, whose calls may fail
SpecRemote == InitRemote /\ [][Next]_vars

(***************************************************************************)
(* The in-process store on its own (MemoryCacheAdapter): counters and      *)
(* prefix deletion.  Each of these operations runs under one hold of the   *)
(* store's lock, from its first read of the map to its last write, and is  *)
(* one step.  Every caller issues at most one operation.                   *)
(***************************************************************************)
K3 == <<"u", "u", ":", "1">>
StoreKeys == Keys \cup {K3}

\* strings.HasPrefix(s, prefix)
HasPrefix(s, prefix) == Len(prefix) <= Len(s) /\ SubSeq(s, 1, Len(prefix)) = prefix

\* strings.TrimSuffix(s, suffix)
TrimSuffix(s, suffix) ==
  IF Len(suffix) <= Len(s) /\ SubSeq(s, Len(s) - Len(suffix) + 1, Len(s)) = suffix
    THEN SubSeq(s, 1, Len(s) - Len(suffix))
    ELSE s

\* the value of a run of decimal digits
RECURSIVE DigitsValue(_)
DigitsValue(ds) ==
  IF Len(ds) = 0 THEN 0
  ELSE 10 * DigitsValue(SubSeq(ds, 1, Len(ds) - 1))
       + (CHOOSE d \in 0..9 : DigitChars[d + 1] = ds[Len(ds)])

IsDigits(ds) ==
  Len(ds) > 0 /\ \A i \in 1..Len(ds) : \E d \in 0..9 : DigitChars[d + 1] = ds[i]

\* var current int64; _ = json.Unmarshal(data, &current): a payload that is
\* not a JSON integer leaves current at 0
UnmarshalInt(data) ==
  IF IsDigits(data) THEN DigitsValue(data)
  ELSE IF Len(data) > 1 /\ data[1] = "-" /\ IsDigits(Tail(data)) THEN 0 - DigitsValue(Tail(data))
  ELSE 0

\* addDelta, reading only the delta: every update but the last one is lost
AddDeltaForgetful(e, delta, t) ==
  [n |-> delta, entry |-> Entry(Marshal(IntVal(delta)).payload, ZeroTime)]

\* addDelta that stores every counter without an expiry
AddDeltaResetsExpiry(e, delta, t) ==
  LET exists == e.present /\ ~Expired(e, t)
      current == (IF exists THEN UnmarshalInt(e.data) ELSE 0) + delta
  IN  [n |-> current, entry |-> Entry(Marshal(IntVal(current)).payload, ZeroTime)]

\* addDelta under the lock: the new counter value and the entry stored
AddDelta(e, delta, t) ==
  LET exists == e.present /\ ~Expired(e, t)
      current == (IF exists THEN UnmarshalInt(e.data) ELSE 0) + delta
  IN  [n |-> current,
       entry |-> Entry(Marshal(IntVal(current)).payload,
                       IF exists THEN e.expireAt ELSE ZeroTime)]

\* DeletePattern, matching the prefix anywhere in the key
DeletePatternContains(c, pattern) ==
  LET prefix == TrimSuffix(pattern, <<"*">>)
      hit == {k \in DOMAIN c : c[k].present /\
                \E i \in 1..Len(k) : HasPrefix(SubSeq(k, i, Len(k)), prefix)}
  IN  IF pattern = <<>> THEN [cache |-> c, count |-> 0]
      ELSE [cache |-> [k \in DOMAIN c |-> IF k \in hit THEN NoEntry ELSE c[k]],
            count |-> Cardinality(hit)]

\* DeletePattern that matches the pattern as written, wildcard included
DeletePatternKeepsWildcard(c, pattern) ==
  LET hit == {k \in DOMAIN c : c[k].present /\ HasPrefix(k, pattern)}
  IN  IF pattern = <<>> THEN [cache |-> c, count |-> 0]
      ELSE [cache |-> [k \in DOMAIN c |-> IF k \in hit THEN NoEntry ELSE c[k]],
            count |-> Cardinality(hit)]

\* MemoryCacheAdapter.DeletePattern: the map after the call and the count returned
DeletePattern(c, pattern) ==
  LET prefix == TrimSuffix(pattern, <<"*">>)
      hit == {k \in DOMAIN c : c[k].present /\ HasPrefix(k, prefix)}
  IN  IF pattern = <<>> THEN [cache |-> c, count |-> 0]
      ELSE [cache |-> [k \in DOMAIN c |-> IF k \in hit THEN NoEntry ELSE c[k]],
            count |-> Cardinality(hit)]

\* the resource names handed to InvalidateCacheOnUpdate
Resources == {<<"u">>, <<"u", "u">>, <<>>, <<"1">>}

\* the entries a Set made at construction time can have left in the map
StoredEntries ==
  {NoEntry} \cup
  {AdapterSetPrepare(v, ttl, 1).entry : v \in {TVal("a"), IntVal(7)}, ttl \in {0 - 1, MaxTTL}}

\* a store that already holds some entries
InitStore ==
  /\ now = 1
  /\ adapterType = "memory"
  /\ adapterTTL \in DefaultTTLs
  /\ mgrTTL = adapterTTL
  /\ cache \in [StoreKeys -> StoredEntries]
  /\ hits = 0
  /\ misses = 0
  /\ pc = [p \in AllCallers |-> "idle"]
  /\ call = [p \in AllCallers |-> NoCall]
  /\ ctx = [p \in AllCallers |-> FALSE]
  /\ snap = [p \in AllCallers |-> NoEntry]
  /\ ret = [p \in AllCallers |-> NoRet]
  /\ stat = [p \in AllCallers |-> NoStat]
  /\ prev = [p \in AllCallers |-> NoPrev]
  /\ lastWrite = [k \in Keys |-> NoWrite]
  /\ calls = 0
  /\ ops = <<>>
  /\ mon = NoMon
  /\ pg = NoPg

\* what a store operation leaves behind: the caller returns n, the map becomes c
Done(p, op, k, n, c) ==
  /\ pc[p] = "idle"
  /\ pc' = [pc EXCEPT ![p] = "done"]
  /\ call' = [call EXCEPT ![p] = [NoCall EXCEPT !.op = op]]
  /\ ret' = [ret EXCEPT ![p] = [NoRet EXCEPT !.val = IntVal(n)]]
  /\ cache' = c
  /\ ops' = Append(ops, [op |-> op, by |-> p, key |-> k, n |-> n, at |-> now,
                         before |-> cache, after |-> c])
  /\ UNCHANGED <<now, adapterType, adapterTTL, mgrTTL, hits, misses, ctx, snap, stat,
                 prev, lastWrite, calls, mon, pg>>

\* MemoryCacheAdapter.Incr
Incr(p) ==
  \E k \in StoreKeys :
    LET r == AddDelta(cache[k], 1, now)
    IN  Done(p, "Incr", k, r.n, [cache EXCEPT ![k] = r.entry])

\* MemoryCacheAdapter.Decr
Decr(p) ==
  \E k \in StoreKeys :
    LET r == AddDelta(cache[k], 0 - 1, now)
    IN  Done(p, "Decr", k, r.n, [cache EXCEPT ![k] = r.entry])

\* InvalidateCacheOnUpdate(ctx, manager, resource) -> manager.DeletePattern
InvalidateCacheOnUpdate(p) ==
  \E resource \in Resources :
    LET r == DeletePattern(cache, resource \o <<":">>)
    IN  Done(p, "Invalidate", resource, r.count, r.cache)

NextStore ==
  \/ Tick
  \/ \E p \in AllCallers : Incr(p) \/ Decr(p) \/ InvalidateCacheOnUpdate(p)

\* concurrent callers of the in-process store
SpecStore == InitStore /\ [][NextStore]_vars

(***************************************************************************)
(* The pagination codec (pagination.go): NormalizePaginationParams,        *)
(* GenerateCacheKey, GenerateDataHash and BuildPaginationResponse are pure *)
(* functions.  Strings are sequences of characters.                        *)
(***************************************************************************)
DefaultPageSize == 20
DefaultPage == 1
MaxPageSize == 200

\* a *PaginationParams: nil, or a struct
NilParams == [nil |-> TRUE, Page |-> 0, PageSize |-> 0, UseCache |-> FALSE]
Params(page, size, useCache) ==
  [nil |-> FALSE, Page |-> page, PageSize |-> size, UseCache |-> useCache]

\* NormalizePaginationParams without the upper clamp
NormalizeUnclamped(params) ==
  IF params.nil THEN Params(DefaultPage, DefaultPageSize, TRUE)
  ELSE Params(IF params.Page <= 0 THEN DefaultPage ELSE params.Page,
              IF params.PageSize <= 0 THEN DefaultPageSize ELSE params.PageSize,
              params.UseCache)

NormalizePaginationParams(params) ==
  IF params.nil THEN Params(DefaultPage, DefaultPageSize, TRUE)
  ELSE LET page == IF params.Page <= 0 THEN DefaultPage ELSE params.Page
           size == IF params.PageSize <= 0 THEN DefaultPageSize ELSE params.PageSize
       IN  Params(page, IF size > MaxPageSize THEN MaxPageSize ELSE size, params.UseCache)

\* the byte order of the characters that occur in filter names
Alphabet == <<"*", "-", "0", "1", "2", "3", "4", "5", "6", "7", "8", "9", ":",
              "a", "b", "c", "e", "g", "i", "p", "s", "u", "z">>
CharCode(c) == CHOOSE i \in 1..Len(Alphabet) : Alphabet[i] = c

\* s < t in Go's string order
RECURSIVE StringLess(_, _)
StringLess(s, t) ==
  IF Len(t) = 0 THEN FALSE
  ELSE IF Len(s) = 0 THEN TRUE
  ELSE IF Head(s) = Head(t) THEN StringLess(Tail(s), Tail(t))
  ELSE CharCode(Head(s)) < CharCode(Head(t))

\* keys left as the map iteration produced them
Unsorted(keys) == keys

\* sort.Strings(keys)
RECURSIVE SortStrings(_)
SortStrings(keys) ==
  IF Len(keys) = 0 THEN <<>>
  ELSE LET i == CHOOSE i \in 1..Len(keys) :
                  \A j \in 1..Len(keys) : ~StringLess(keys[j], keys[i])
       IN  <<keys[i]>> \o SortStrings(SubSeq(keys, 1, i - 1) \o SubSeq(keys, i + 1, Len(keys)))

\* fmt.Sprintf("%d", n)
Sprintf(n) == IF n < 0 THEN <<"-">> \o Digits(0 - n) ELSE Digits(n)

\* strings.Join(parts, sep)
RECURSIVE Join(_, _)
Join(parts, sep) ==
  IF Len(parts) = 0 THEN <<>>
  ELSE IF Len(parts) = 1 THEN parts[1]
  ELSE LET h == Len(parts) \div 2
       IN  Join(SubSeq(parts, 1, h), sep) \o sep \o Join(SubSeq(parts, h + 1, Len(parts)), sep)

\* the filter names alone, without their values
RECURSIVE FilterPartsNamesOnly(_, _)
FilterPartsNamesOnly(filters, keys) ==
  IF Len(keys) = 0 THEN <<>>
  ELSE <<Head(keys)>> \o FilterPartsNamesOnly(filters, Tail(keys))

\* for _, k := range keys { val, _ := json.Marshal(filters[k]); parts = append(parts, k, string(val)) }
RECURSIVE FilterParts(_, _)
FilterParts(filters, keys) ==
  IF Len(keys) = 0 THEN <<>>
  ELSE <<Head(keys), Marshal(filters[Head(keys)]).payload>> \o FilterParts(filters, Tail(keys))

\* GenerateCacheKey; iter is the order in which `range filters` yields the names
GenerateCacheKey(resource, filters, iter, params) ==
  LET p == NormalizePaginationParams(params)
      keys == SortStrings(iter)
      parts == <<resource>> \o FilterParts(filters, keys)
                 \o <<<<"p", "a", "g", "e">>, Sprintf(p.Page),
                      <<"s", "i", "z", "e">>, Sprintf(p.PageSize)>>
  IN  Join(parts, <<":">>)

\* the arguments the codec is called with
KeyResources == {<<"a">>, <<"a", ":", "b", ":", "1">>, <<"u">>}
FilterNames == {<<"b">>, <<"c">>}
FilterValues == {IntVal(1), IntVal(2)}
FilterMaps == UNION {[D -> FilterValues] : D \in SUBSET FilterNames}
NoFilters == CHOOSE f \in FilterMaps : DOMAIN f = {}

\* the orders in which ranging over a map may yield its names
Iterations(f) ==
  {s \in [1..Cardinality(DOMAIN f) -> DOMAIN f] : \A i, j \in DOMAIN s : s[i] = s[j] => i = j}

KeyParams == {NilParams, Params(1, 20, TRUE), Params(2, 20, TRUE), Params(1, 2, TRUE),
              Params(0, 0, FALSE), Params(1, MaxPageSize, TRUE), Params(1, MaxPageSize + 1, TRUE)}
NormalizeParams ==
  {NilParams} \cup
  {Params(page, size, u) : page \in {0 - 1, 0, 1, 3},
                           size \in {0 - 1, 0, 1, DefaultPageSize, MaxPageSize, MaxPageSize + 1},
                           u \in BOOLEAN}

\* one call of the codec: its arguments and its result
PgCall(fn) ==
  [fn |-> fn, resource |-> <<>>, filters |-> NoFilters, iter |-> <<>>, params |-> NilParams,
   data |-> <<>>, isNil |-> FALSE, total |-> 0, fromCache |-> FALSE, out |-> <<>>,
   key |-> <<>>, err |-> NoErr, gets |-> 0, sets |-> 0, prod |-> 0, stored |-> FALSE]

\* two calls of one function are kept, to be compared with each other
Loggable(fn) == Len(pg) = 0 \/ (Len(pg) = 1 /\ pg[1].fn = fn)

Logged(c) ==
  /\ pg' = Append(pg, c)
  /\ UNCHANGED <<now, adapterType, adapterTTL, mgrTTL, cache, hits, misses, pc, call, ctx,
                 snap, ret, stat, prev, lastWrite, calls, ops, mon>>

\* a call of GenerateCacheKey
CallGenerateCacheKey ==
  /\ Loggable("GenerateCacheKey")
  /\ \E resource \in KeyResources, filters \in FilterMaps, params \in KeyParams :
    \E iter \in Iterations(filters) :
      Logged([PgCall("GenerateCacheKey") EXCEPT
                !.resource = resource, !.filters = filters, !.iter = iter, !.params = params,
                !.out = GenerateCacheKey(resource, filters, iter, params)])

\* a call of NormalizePaginationParams
CallNormalizePaginationParams ==
  /\ Loggable("NormalizePaginationParams")
  /\ \E params \in NormalizeParams :
    Logged([PgCall("NormalizePaginationParams") EXCEPT
              !.params = params, !.out = NormalizePaginationParams(params)])

\* int64 arithmetic wraps around.  The width is scaled down to Int64Bits bits so
\* that the largest int64 is a number the checker can hold.
Int64Bits == 10
MaxInt64 == 2 ^ (Int64Bits - 1) - 1
Wrap64(x) == ((x + 2 ^ (Int64Bits - 1)) % 2 ^ Int64Bits) - 2 ^ (Int64Bits - 1)

\* Go's integer division, which truncates toward zero (b > 0)
GoDiv(a, b) == IF a >= 0 THEN a \div b ELSE 0 - ((0 - a) \div b)

\* json.Marshal of a []T: a nil slice is "null"; one unencodable item fails the whole
MarshalSlice(isNil, data) ==
  IF isNil THEN [err |-> NoErr, payload |-> <<"n", "u", "l", "l">>]
  ELSE IF \E i \in 1..Len(data) : Marshal(data[i]).err # NoErr
         THEN [err |-> "marshal", payload |-> <<>>]
  ELSE [err |-> NoErr,
        payload |-> <<"[">> \o Join([i \in 1..Len(data) |-> Marshal(data[i]).payload], <<",">>)
                      \o <<"]">>]

\* hex.EncodeToString(sha256.Sum256(payload)): a digest, taken to be collision-free
Sha256Hex(payload) == <<"#">> \o payload

\* GenerateDataHash(data): the error of json.Marshal is dropped
GenerateDataHash(isNil, data) == Sha256Hex(MarshalSlice(isNil, data).payload)

\* a digest that also covers the total
HashWithTotal(isNil, data, total) ==
  Sha256Hex(MarshalSlice(isNil, data).payload \o Sprintf(total))

\* the digest BuildPaginationResponse puts in the response
ResponseHash(isNil, data, total) == GenerateDataHash(isNil, data)

\* pages := int((total + int64(params.PageSize) - 1) / int64(params.PageSize))
TotalPages(total, pageSize) == GoDiv(Wrap64(total + pageSize - 1), pageSize)

BuildPaginationResponse(isNil, data, total, params, cacheKey, fromCache) ==
  LET p == NormalizePaginationParams(params)
  IN  [Data |-> data, IsNil |-> isNil, Total |-> total, Page |-> p.Page,
       PageSize |-> p.PageSize, TotalPages |-> TotalPages(total, p.PageSize),
       FromCache |-> fromCache, CacheKey |-> cacheKey,
       DataHash |-> ResponseHash(isNil, data, total)]

BuildData == {<<>>, <<TVal("a")>>, <<TVal("a"), TVal("b")>>, <<TVal("b"), TVal("a")>>}
BuildTotals == {0, 3, 41, MaxInt64}

\* a call of BuildPaginationResponse
CallBuildPaginationResponse ==
  /\ Loggable("BuildPaginationResponse")
  /\ \E data \in BuildData, isNil \in BOOLEAN, total \in BuildTotals, params \in KeyParams,
     fromCache \in BOOLEAN :
    /\ isNil => data = <<>>
    /\ Logged([PgCall("BuildPaginationResponse") EXCEPT
                 !.data = data, !.isNil = isNil, !.total = total, !.params = params,
                 !.fromCache = fromCache,
                 !.out = BuildPaginationResponse(isNil, data, total, params, K1, fromCache)])

NextCodec ==
  \/ CallGenerateCacheKey
  \/ CallNormalizePaginationParams
  \/ CallBuildPaginationResponse

\* calls of the pagination codec
InitCodec == Constructed("memory") /\ adapterTTL = 0

SpecCodec == InitCodec /\ [][NextCodec]_vars

(***************************************************************************)
(* QueryWithPagination (pagination.go) over the in-process store.  The     *)
(* stored payload is the JSON of a paginationCacheItem, written here as    *)
(* {data;total;data_hash}.                                                 *)
(***************************************************************************)
Envelope(isNil, data, total, hash) ==
  [IsNil |-> isNil, Data |-> data, Total |-> total, DataHash |-> hash]

\* var cached paginationCacheItem[T]
ZeroEnvelope == Envelope(TRUE, <<>>, 0, <<>>)

\* json.Marshal(paginationCacheItem[T]{...})
MarshalEnvelope(env) ==
  LET d == MarshalSlice(env.IsNil, env.Data)
  IN  IF d.err # NoErr THEN [err |-> d.err, payload |-> <<>>]
      ELSE [err |-> NoErr,
            payload |-> <<"{">> \o d.payload \o <<";">> \o Sprintf(env.Total) \o <<";">>
                          \o env.DataHash \o <<"}">>]

\* the first place of character c in s, or 0
IndexOf(s, c) ==
  IF \E i \in 1..Len(s) : s[i] = c
    THEN CHOOSE i \in 1..Len(s) : s[i] = c /\ \A j \in 1..(i - 1) : s[j] # c
    ELSE 0

\* json.Unmarshal into a []T
UnmarshalSlice(d) ==
  LET n == (Len(d) - 1) \div 4
      item(i) == SubSeq(d, 4 * i - 2, 4 * i)
      bad == [err |-> "unmarshal", isNil |-> TRUE, data |-> <<>>]
  IN  IF d = <<"n", "u", "l", "l">> THEN [err |-> NoErr, isNil |-> TRUE, data |-> <<>>]
      ELSE IF Len(d) < 2 \/ d[1] # "[" \/ d[Len(d)] # "]" THEN bad
      ELSE IF Len(d) = 2 THEN [err |-> NoErr, isNil |-> FALSE, data |-> <<>>]
      ELSE IF Len(d) # 4 * n + 1 \/ \E i \in 1..n : UnmarshalT(item(i)).err # NoErr THEN bad
      ELSE [err |-> NoErr, isNil |-> FALSE, data |-> [i \in 1..n |-> UnmarshalT(item(i)).val]]

\* json.Unmarshal(data, &cached): a JSON object without the envelope's fields decodes
\* into the zero envelope, anything that is not an object fails
UnmarshalEnvelope(payload) ==
  LET bad == [err |-> "unmarshal", env |-> ZeroEnvelope]
      inner == SubSeq(payload, 2, Len(payload) - 1)
      i1 == IndexOf(inner, ";")
      rest == SubSeq(inner, i1 + 1, Len(inner))
      i2 == IndexOf(rest, ";")
      s == UnmarshalSlice(SubSeq(inner, 1, i1 - 1))
      t == SubSeq(rest, 1, i2 - 1)
  IN  IF Len(payload) < 2 \/ payload[1] # "{" \/ payload[Len(payload)] # "}" THEN bad
      ELSE IF i1 = 0 THEN [err |-> NoErr, env |-> ZeroEnvelope]
      ELSE IF i2 = 0 \/ s.err # NoErr \/ ~IsDigits(t) THEN bad
      ELSE [err |-> NoErr,
            env |-> Envelope(s.isNil, s.data, DigitsValue(t), SubSeq(rest, i2 + 1, Len(rest)))]

\* MemoryCacheAdapter.Set for a value whose json.Marshal gave m
AdapterSetMarshalled(m, ttl, t) ==
  IF m.err # NoErr
    THEN [err |-> m.err, entry |-> NoEntry]
    ELSE [err |-> NoErr, entry |-> Entry(m.payload, ExpireAt(AdapterSetTTL(ttl), t))]

PagedResources == {<<"a">>, <<"u">>}
PagedFilters == {f \in FilterMaps : DOMAIN f = {} \/ (DOMAIN f = {<<"b">>} /\ f[<<"b">>] = IntVal(1))}
PagedParams == {NilParams, Params(1, 2, TRUE), Params(2, 2, TRUE), Params(1, 2, FALSE)}
PagedKeys ==
  {GenerateCacheKey(r, f, CHOOSE it \in Iterations(f) : TRUE, q) :
     r \in PagedResources, f \in PagedFilters, q \in PagedParams}

\* what queryFunc may return: (data, total, nil) or (nil, 0, err)
PagedOutcomes ==
  [err : {NoErr}, isNil : {FALSE},
   data : {<<TVal("a")>>, <<TVal("a"), TVal("b")>>, <<Unencodable>>}, total : {0, 3}]
    \cup [err : {NoErr}, isNil : {TRUE}, data : {<<>>}, total : {0, 3}]
    \cup [err : ProducerErrs, isNil : {TRUE}, data : {<<>>}, total : {0}]

\* a manager over an in-process store that holds pagination entries
InitPaged ==
  /\ now = 1
  /\ adapterType = "memory"
  /\ adapterTTL \in DefaultTTLs
  /\ mgrTTL = adapterTTL
  /\ cache = [k \in PagedKeys |-> NoEntry]
  /\ hits = 0
  /\ misses = 0
  /\ pc = [p \in AllCallers |-> "idle"]
  /\ call = [p \in AllCallers |-> NoCall]
  /\ ctx = [p \in AllCallers |-> FALSE]
  /\ snap = [p \in AllCallers |-> NoEntry]
  /\ ret = [p \in AllCallers |-> NoRet]
  /\ stat = [p \in AllCallers |-> NoStat]
  /\ prev = [p \in AllCallers |-> NoPrev]
  /\ lastWrite = [k \in Keys |-> NoWrite]
  /\ calls = 0
  /\ ops = <<>>
  /\ mon = NoMon
  /\ pg = NoPg

\* the QueryWithPagination call in progress (or the last one made)
ThisPaged == pg[Len(pg)]

\* params = NormalizePaginationParams(params); key := GenerateCacheKey(...);
\* if params.UseCache, adapter.Get reads the map under the read lock
StartQueryWithPagination(p) ==
  \E resource \in PagedResources, filters \in PagedFilters, params \in PagedParams :
    \E iter \in Iterations(filters) :
      LET np == NormalizePaginationParams(params)
          key == GenerateCacheKey(resource, filters, iter, np)
      IN  /\ Begin(p, [NoCall EXCEPT !.op = "QueryWithPagination", !.key = key,
                                     !.useCache = np.UseCache])
          /\ pg' = Append(pg, [PgCall("QueryWithPagination") EXCEPT
                                 !.resource = resource, !.filters = filters, !.iter = iter,
                                 !.params = params, !.key = key,
                                 !.gets = IF np.UseCache THEN 1 ELSE 0])
          /\ snap' = [snap EXCEPT ![p] = IF np.UseCache THEN cache[key] ELSE NoEntry]
          /\ pc' = [pc EXCEPT ![p] = IF np.UseCache THEN "pq_check" ELSE "pq_produce"]
          /\ UNCHANGED <<now, adapterType, adapterTTL, mgrTTL, cache, hits, misses, ctx, ret,
                         stat, lastWrite, ops, mon>>

\* a response served from a decoded envelope with the hash computed afresh
CachedResponseRehashed(env, params, key) ==
  BuildPaginationResponse(env.IsNil, env.Data, env.Total, params, key, TRUE)

\* the response served from a decoded envelope: the stored hash is kept
CachedResponse(env, params, key) ==
  [BuildPaginationResponse(env.IsNil, env.Data, env.Total, params, key, TRUE)
     EXCEPT !.DataHash = env.DataHash]

\* the rest of adapter.Get (expiry check, lazy delete) and the decoding of the payload
PagedCheck(p) ==
  /\ pc[p] = "pq_check"
  /\ LET c == ThisPaged
         g == AdapterGet(snap[p], now)
         u == UnmarshalEnvelope(g.data)
         np == NormalizePaginationParams(c.params)
     IN  /\ cache' = IF g.delete THEN [cache EXCEPT ![c.key] = NoEntry] ELSE cache
         /\ IF g.found /\ u.err = NoErr
              THEN /\ pg' = [pg EXCEPT ![Len(pg)] =
                               [c EXCEPT !.fromCache = TRUE,
                                         !.out = CachedResponse(u.env, np, c.key)]]
                   /\ pc' = [pc EXCEPT ![p] = "idle"]
              ELSE /\ pg' = pg
                   /\ pc' = [pc EXCEPT ![p] = "pq_produce"]
  /\ snap' = [snap EXCEPT ![p] = NoEntry]
  /\ UNCHANGED <<now, adapterType, adapterTTL, mgrTTL, hits, misses, call, ctx, ret, stat,
                 prev, lastWrite, calls, ops, mon>>

\* queryFunc(), BuildPaginationResponse and, if params.UseCache, the first half of
\* adapter.Set (marshal, default TTL, clock read)
PagedProduce(p) ==
  /\ pc[p] = "pq_produce"
  /\ \E o \in PagedOutcomes :
       LET c == ThisPaged
           np == NormalizePaginationParams(c.params)
           resp == BuildPaginationResponse(o.isNil, o.data, o.total, np, c.key, FALSE)
           m == MarshalEnvelope(Envelope(o.isNil, o.data, o.total, resp.DataHash))
           r == AdapterSetMarshalled(m, mgrTTL, now)
           made == [c EXCEPT !.prod = c.prod + 1, !.err = o.err, !.isNil = o.isNil,
                             !.data = o.data, !.total = o.total]
       IN  IF o.err # NoErr
             THEN /\ pg' = [pg EXCEPT ![Len(pg)] = made]
                  /\ pc' = [pc EXCEPT ![p] = "idle"]
                  /\ snap' = snap
             ELSE IF np.UseCache /\ r.err = NoErr
               THEN /\ pg' = [pg EXCEPT ![Len(pg)] = [made EXCEPT !.out = resp, !.sets = 1]]
                    /\ pc' = [pc EXCEPT ![p] = "pq_store"]
                    /\ snap' = [snap EXCEPT ![p] = r.entry]
               ELSE /\ pg' = [pg EXCEPT ![Len(pg)] =
                                [made EXCEPT !.out = resp,
                                             !.sets = IF np.UseCache THEN 1 ELSE 0]]
                    /\ pc' = [pc EXCEPT ![p] = "idle"]
                    /\ snap' = snap
  /\ UNCHANGED <<now, adapterType, adapterTTL, mgrTTL, cache, hits, misses, call, ctx, ret,
                 stat, prev, lastWrite, calls, ops, mon>>

\* the second half of adapter.Set: the entry is stored under the write lock
PagedStore(p) ==
  /\ pc[p] = "pq_store"
  /\ cache' = [cache EXCEPT ![ThisPaged.key] = snap[p]]
  /\ pg' = [pg EXCEPT ![Len(pg)].stored = TRUE]
  /\ pc' = [pc EXCEPT ![p] = "idle"]
  /\ snap' = [snap EXCEPT ![p] = NoEntry]
  /\ UNCHANGED <<now, adapterType, adapterTTL, mgrTTL, hits, misses, call, ctx, ret, stat,
                 prev, lastWrite, calls, ops, mon>>

NextPaged ==
  \/ Tick
  \/ \E p \in Callers :
       \/ StartQueryWithPagination(p)
       \/ PagedCheck(p)
       \/ PagedProduce(p)
       \/ PagedStore(p)

SpecPaged == InitPaged /\ [][NextPaged]_vars

\* An envelope another writer stored under a pagination key with manager.Set: its
\* hash is not the hash of its data.
WarmKey ==
  GenerateCacheKey(<<"a">>, NoFilters, CHOOSE it \in Iterations(NoFilters) : TRUE,
                   Params(1, 2, TRUE))
WarmPayload == MarshalEnvelope(Envelope(FALSE, <<TVal("a")>>, 3, <<"x">>)).payload
WarmEntries == {Entry(WarmPayload, ZeroTime), Entry(WarmPayload, 2)}

\* a manager whose store already holds that envelope
InitWarm ==
  /\ now = 1
  /\ adapterType = "memory"
  /\ adapterTTL \in DefaultTTLs
  /\ mgrTTL = adapterTTL
  /\ \E e \in WarmEntries :
       cache = [k \in PagedKeys |-> IF k = WarmKey THEN e ELSE NoEntry]
  /\ hits = 0
  /\ misses = 0
  /\ pc = [p \in AllCallers |-> "idle"]
  /\ call = [p \in AllCallers |-> NoCall]
  /\ ctx = [p \in AllCallers |-> FALSE]
  /\ snap = [p \in AllCallers |-> NoEntry]
  /\ ret = [p \in AllCallers |-> NoRet]
  /\ stat = [p \in AllCallers |-> NoStat]
  /\ prev = [p \in AllCallers |-> NoPrev]
  /\ lastWrite = [k \in Keys |-> NoWrite]
  /\ calls = 0
  /\ ops = <<>>
  /\ mon = NoMon
  /\ pg = NoPg

SpecWarm == InitWarm /\ [][NextPaged]_vars

(***************************************************************************)
(* The monitor on its own (monitor.go).  Every method holds the monitor's  *)
(* lock from its first to its last statement and is one step.  A float64   *)
(* quotient of two counters is written as the reduced fraction <<n, d>>.   *)
(***************************************************************************)
maxTrack == 1000

Durations == {1, 2}

RECURSIVE GCD(_, _)
GCD(a, b) == IF b = 0 THEN a ELSE GCD(b, a % b)

\* float64(a) / float64(b), b > 0
Float64Div(a, b) == <<a \div GCD(a, b), b \div GCD(a, b)>>

\* the hits per miss
HitsPerMiss(h, m) == IF m = 0 THEN <<0, 1>> ELSE Float64Div(h, m)

\* Monitor.HitRatio for the counters h and m
HitRatio(h, m) ==
  LET total == h + m
  IN  IF total = 0 THEN <<0, 1>> ELSE Float64Div(h, total)

RECURSIVE Sum(_)
Sum(ds) == IF Len(ds) = 0 THEN 0 ELSE Head(ds) + Sum(Tail(ds))

\* Monitor.track(duration)
Track(duration) ==
  LET appended == Append(mon.tracker, duration)
      tracker == IF Len(appended) > maxTrack THEN Tail(appended) ELSE appended
  IN  [mon EXCEPT !.tracker = tracker,
                  !.avg = IF Len(tracker) > 0 THEN Sum(tracker) \div Len(tracker) ELSE mon.avg,
                  !.lastUpdate = now]

\* Monitor.RecordHit(duration)
RecordHit(p) ==
  /\ mon.h + mon.m < MaxRecords
  /\ \E duration \in Durations :
       /\ hits' = hits + 1
       /\ mon' = [Track(duration) EXCEPT !.h = mon.h + 1]
  /\ UNCHANGED <<now, adapterType, adapterTTL, mgrTTL, cache, misses, pc, call, ctx, snap,
                 ret, stat, prev, lastWrite, calls, ops, pg>>

\* Monitor.RecordMiss(duration)
RecordMiss(p) ==
  /\ mon.h + mon.m < MaxRecords
  /\ \E duration \in Durations :
       /\ misses' = misses + 1
       /\ mon' = [Track(duration) EXCEPT !.m = mon.m + 1]
  /\ UNCHANGED <<now, adapterType, adapterTTL, mgrTTL, cache, hits, pc, call, ctx, snap,
                 ret, stat, prev, lastWrite, calls, ops, pg>>

\* Monitor.HitRatio()
ReadHitRatio(p) ==
  /\ mon' = [mon EXCEPT !.ratio = HitRatio(hits, misses), !.read = TRUE,
                        !.readH = mon.h, !.readM = mon.m]
  /\ UNCHANGED <<now, adapterType, adapterTTL, mgrTTL, cache, hits, misses, pc, call, ctx,
                 snap, ret, stat, prev, lastWrite, calls, ops, pg>>

\* Monitor.Reset()
Reset(p) ==
  /\ mon.h + mon.m > 0
  /\ hits' = 0
  /\ misses' = 0
  /\ mon' = [NoMon EXCEPT !.lastUpdate = now]
  /\ UNCHANGED <<now, adapterType, adapterTTL, mgrTTL, cache, pc, call, ctx, snap, ret,
                 stat, prev, lastWrite, calls, ops, pg>>

NextMonitor ==
  \/ Tick
  \/ \E p \in AllCallers : RecordHit(p) \/ RecordMiss(p) \/ ReadHitRatio(p) \/ Reset(p)

InitMonitor == Constructed("memory") /\ adapterTTL = 0

\* concurrent callers of one monitor
SpecMonitor == InitMonitor /\ [][NextMonitor]_vars

(***************************************************************************)
(* Two goroutines on one MemoryCacheAdapter.  Every step of Set, Get and   *)
(* Delete is one critical section of the adapter's RWMutex (Get: the read  *)
(* under RLock, then the clock read and the delete under Lock), so the     *)
(* steps of the two callers interleave freely.  The map starts with        *)
(* entries an earlier Set at instant 1 left behind.                        *)
(***************************************************************************)
RaceEntries == {NoEntry, AdapterSetPrepare(TVal("a"), MaxTTL, 1).entry}

InitRace ==
  /\ now = 1
  /\ adapterType = "memory"
  /\ adapterTTL \in DefaultTTLs
  /\ mgrTTL = adapterTTL
  /\ cache \in [Keys -> RaceEntries]
  /\ hits = 0
  /\ misses = 0
  /\ pc = [p \in AllCallers |-> "idle"]
  /\ call = [p \in AllCallers |-> NoCall]
  /\ ctx = [p \in AllCallers |-> FALSE]
  /\ snap = [p \in AllCallers |-> NoEntry]
  /\ ret = [p \in AllCallers |-> NoRet]
  /\ stat = [p \in AllCallers |-> NoStat]
  /\ prev = [p \in AllCallers |-> NoPrev]
  /\ lastWrite = [k \in Keys |-> NoWrite]
  /\ calls = 0
  /\ ops = <<>>
  /\ mon = NoMon
  /\ pg = NoPg

NextRace ==
  \/ Tick
  \/ \E p \in AllCallers :
       \/ StartSet(p)
       \/ SetStore(p)
       \/ StartGet(p)
       \/ GetCheck(p)
       \/ Delete(p)

SpecRace == InitRace /\ [][NextRace]_vars

(***************************************************************************)
(* Two goroutines calling Query on one manager with the in-process store.  *)
(* Query takes no lock of its own: between adapter.Get, queryFunc and      *)
(* adapter.Set of one call the steps of the other call may run.            *)
(***************************************************************************)
\* a Query with an accepted ticket or none, a live context and the default TTL
StartFlight(p) ==
  /\ StartQuery(p)
  /\ ~call'[p].ticket.given
  /\ ~call'[p].withTTL
  /\ ~ctx'[p]

NextFlight ==
  \/ Tick
  \/ \E p \in AllCallers :
       \/ StartFlight(p)
       \/ QCheck(p)
       \/ QProduce(p)
       \/ QStore(p)

SpecFlight == Init /\ [][NextFlight]_vars

(***************************************************************************)
(* Reads of the in-process store: Exists, Get and Stats of one caller on a *)
(* map that already holds entries, some expiring, some not.                *)
(*   StartExists  reads the entry under the read lock;                     *)
(*   ExistsCheck  reads the clock and answers, touching nothing;           *)
(*   Stats        counts the entries under the read lock.                  *)
(***************************************************************************)

\* an Exists that looks only at the presence of the key
AdapterExistsPresent(e, t) == e.present

\* MemoryCacheAdapter.Exists after the read lock: e is the entry read, t is time.Now()
AdapterExists(e, t) ==
  IF ~e.present THEN FALSE
  ELSE IF e.expireAt # ZeroTime /\ t > e.expireAt THEN FALSE
  ELSE TRUE

\* MemoryCacheAdapter.Stats of map c at instant t
AdapterStats(c, t) ==
  LET total == Cardinality({k \in DOMAIN c : c[k].present})
      expired == Cardinality({k \in DOMAIN c :
                                /\ c[k].present
                                /\ c[k].expireAt # ZeroTime
                                /\ t > c[k].expireAt})
  IN  [total_items |-> total, expired_items |-> expired, active_items |-> total - expired]

StartExists(p) ==
  \E k \in Keys :
    /\ Begin(p, [NoCall EXCEPT !.op = "Exists", !.key = k])
    /\ ctx' = [ctx EXCEPT ![p] = FALSE]
    /\ stat' = [stat EXCEPT ![p] = StartStat(p, k)]
    /\ snap' = [snap EXCEPT ![p] = cache[k]]
    /\ ret' = [ret EXCEPT ![p] = NoRet]
    /\ pc' = [pc EXCEPT ![p] = "exists_check"]
    /\ UNCHANGED <<ops, mon, pg, now, adapterType, adapterTTL, mgrTTL, cache, hits, misses, lastWrite>>

ExistsCheck(p) ==
  /\ pc[p] = "exists_check"
  /\ ret' = [ret EXCEPT ![p] = [NoRet EXCEPT !.hit = AdapterExists(snap[p], now)]]
  /\ stat' = [stat EXCEPT ![p].at = now]
  /\ pc' = [pc EXCEPT ![p] = "idle"]
  /\ snap' = [snap EXCEPT ![p] = NoEntry]
  /\ UNCHANGED <<ops, mon, pg, now, adapterType, adapterTTL, mgrTTL, cache, hits, misses, call, ctx,
                 prev, lastWrite, calls>>

Stats(p) ==
  /\ Begin(p, [NoCall EXCEPT !.op = "Stats"])
  /\ ops' = Append(ops, [op |-> "Stats", by |-> p, at |-> now, n |-> AdapterStats(cache, now),
                         before |-> cache, after |-> cache])
  /\ UNCHANGED <<mon, pg, now, adapterType, adapterTTL, mgrTTL, cache, hits, misses, pc, ctx, snap,
                 ret, stat, lastWrite>>

InitTouch ==
  /\ now = 1
  /\ adapterType = "memory"
  /\ adapterTTL \in DefaultTTLs
  /\ mgrTTL = adapterTTL
  /\ cache \in [Keys -> StoredEntries]
  /\ hits = 0
  /\ misses = 0
  /\ pc = [p \in AllCallers |-> "idle"]
  /\ call = [p \in AllCallers |-> NoCall]
  /\ ctx = [p \in AllCallers |-> FALSE]
  /\ snap = [p \in AllCallers |-> NoEntry]
  /\ ret = [p \in AllCallers |-> NoRet]
  /\ stat = [p \in AllCallers |-> NoStat]
  /\ prev = [p \in AllCallers |-> NoPrev]
  /\ lastWrite = [k \in Keys |-> NoWrite]
  /\ calls = 0
  /\ ops = <<>>
  /\ mon = NoMon
  /\ pg = NoPg

NextTouch ==
  \/ Tick
  \/ \E p \in Callers :
       \/ StartExists(p)
       \/ ExistsCheck(p)
       \/ StartGet(p)
       \/ GetCheck(p)
       \/ Stats(p)

SpecTouch == InitTouch /\ [][NextTouch]_vars

(***************************************************************************)
(* Manager.DeletePattern -> MemoryCacheAdapter.DeletePattern, called with  *)
(* patterns of every shape on a map that already holds entries.            *)
(***************************************************************************)
Patterns ==
  {<<>>, <<"*">>, <<"u">>, <<"u", "*">>, <<"u", ":">>, <<"u", ":", "*">>,
   <<"u", ":", "1">>, <<"u", "u", ":", "*">>, <<"u", "*", ":">>, <<"*", "*">>, <<":">>}

ManagerDeletePattern(p) ==
  \E pattern \in Patterns :
    LET r == DeletePattern(cache, pattern)
    IN  Done(p, "DeletePattern", pattern, r.count, r.cache)

NextPattern ==
  \/ Tick
  \/ \E p \in AllCallers : ManagerDeletePattern(p)

SpecPattern == InitStore /\ [][NextPattern]_vars

(***************************************************************************)
(* Prefetch(ctx, strategy, manager, resource, items, pageSize, ttl): one   *)
(* call on a fresh manager.  The log entry in pg holds the arguments, the  *)
(* loop counter and the pages handed to manager.Set.                       *)
(*   StartPrefetch  checks the strategy, defaults pageSize and computes    *)
(*                  totalPages, capped by strategy.batchSize;              *)
(*   PrefetchPage   slices the page, derives the key and enters            *)
(*                  manager.Set (default TTL, marshal, clock read);        *)
(*   PrefetchStore  stores the entry under the write lock and moves on.    *)
(***************************************************************************)

\* n items, alternating
Items(n) == [i \in 1..n |-> IF i % 2 = 1 THEN TVal("a") ELSE TVal("b")]

PrefetchItems == {<<>>, Items(3), Items(MaxPageSize + 1)}
PrefetchPageSizes == {0 - 1, 0, 2, MaxPageSize, MaxPageSize + 1}
PrefetchBatchSizes == {0, 1, 2}
PrefetchResource == <<"a">>

\* NewPrefetchCacheStrategy(enabled, batchSize).batchSize
NewPrefetchBatchSize(batchSize) == IF batchSize <= 0 THEN 1 ELSE batchSize

\* the page size Prefetch slices with
PrefetchPageSize(pageSize) == IF pageSize <= 0 THEN DefaultPageSize ELSE pageSize

\* totalPages after the cap
PrefetchTotalPages(n, size, batchSize) ==
  LET totalPages == GoDiv(n + size - 1, size)
  IN  IF totalPages > batchSize THEN batchSize ELSE totalPages

\* items[offset:end] of page page
PageData(items, page, size) ==
  LET offset == (page - 1) * size
      end == IF offset + size > Len(items) THEN Len(items) ELSE offset + size
  IN  SubSeq(items, offset + 1, end)

\* GenerateCacheKey(resource, nil, &PaginationParams{Page: page, PageSize: pageSize, ...})
PrefetchKey(resource, page, pageSize) ==
  GenerateCacheKey(resource, NoFilters, CHOOSE it \in Iterations(NoFilters) : TRUE,
                   Params(page, pageSize, TRUE))

PrefetchKeys ==
  {PrefetchKey(PrefetchResource, page, PrefetchPageSize(size)) :
     page \in 1..2, size \in PrefetchPageSizes}

NoPrefetch ==
  [fn |-> "Prefetch", resource |-> PrefetchResource, items |-> <<>>, pageSize |-> 0,
   batchSize |-> 1, enabled |-> FALSE, ttl |-> 0, size |-> 0, totalPages |-> 0, page |-> 0,
   key |-> <<>>, writes |-> <<>>]

InitPrefetch ==
  /\ now = 1
  /\ adapterType = "memory"
  /\ adapterTTL \in DefaultTTLs
  /\ mgrTTL = adapterTTL
  /\ cache = [k \in PrefetchKeys |-> NoEntry]
  /\ hits = 0
  /\ misses = 0
  /\ pc = [p \in AllCallers |-> "idle"]
  /\ call = [p \in AllCallers |-> NoCall]
  /\ ctx = [p \in AllCallers |-> FALSE]
  /\ snap = [p \in AllCallers |-> NoEntry]
  /\ ret = [p \in AllCallers |-> NoRet]
  /\ stat = [p \in AllCallers |-> NoStat]
  /\ prev = [p \in AllCallers |-> NoPrev]
  /\ lastWrite = [k \in Keys |-> NoWrite]
  /\ calls = 0
  /\ ops = <<>>
  /\ mon = NoMon
  /\ pg = NoPg

StartPrefetch(p) ==
  \E items \in PrefetchItems, pageSize \in PrefetchPageSizes, batch \in PrefetchBatchSizes,
     enabled \in BOOLEAN, ttl \in {0, MaxTTL} :
    LET size == PrefetchPageSize(pageSize)
        batchSize == NewPrefetchBatchSize(batch)
        totalPages == PrefetchTotalPages(Len(items), size, batchSize)
        runs == enabled /\ totalPages >= 1
    IN  /\ pg = NoPg
        /\ Begin(p, [NoCall EXCEPT !.op = "Prefetch"])
        /\ pg' = <<[NoPrefetch EXCEPT !.items = items, !.pageSize = pageSize,
                                      !.batchSize = batchSize, !.enabled = enabled,
                                      !.ttl = ttl, !.size = size,
                                      !.totalPages = IF enabled THEN totalPages ELSE 0,
                                      !.page = IF runs THEN 1 ELSE 0]>>
        /\ pc' = [pc EXCEPT ![p] = IF runs THEN "pf_page" ELSE "idle"]
        /\ UNCHANGED <<now, adapterType, adapterTTL, mgrTTL, cache, hits, misses, ctx, snap,
                       ret, stat, lastWrite, ops, mon>>

PrefetchPage(p) ==
  /\ pc[p] = "pf_page"
  /\ LET c == pg[1]
         pageData == PageData(c.items, c.page, c.size)
         cacheKey == PrefetchKey(c.resource, c.page, c.size)
         m == MarshalEnvelope(Envelope(FALSE, pageData, Len(c.items),
                                       GenerateDataHash(FALSE, pageData)))
         r == AdapterSetMarshalled(m, ManagerSetTTL(c.ttl), now)
     IN  /\ snap' = [snap EXCEPT ![p] = r.entry]
         /\ pg' = <<[c EXCEPT !.key = cacheKey,
                              !.writes = Append(c.writes, [page |-> c.page, key |-> cacheKey,
                                                           data |-> pageData, at |-> now])]>>
         /\ pc' = [pc EXCEPT ![p] = "pf_store"]
  /\ UNCHANGED <<now, adapterType, adapterTTL, mgrTTL, cache, hits, misses, call, ctx, ret,
                 stat, prev, lastWrite, calls, ops, mon>>

PrefetchStore(p) ==
  /\ pc[p] = "pf_store"
  /\ LET c == pg[1]
     IN  /\ cache' = [cache EXCEPT ![c.key] = snap[p]]
         /\ pg' = <<[c EXCEPT !.page = c.page + 1]>>
         /\ pc' = [pc EXCEPT ![p] = IF c.page + 1 <= c.totalPages THEN "pf_page" ELSE "idle"]
  /\ snap' = [snap EXCEPT ![p] = NoEntry]
  /\ UNCHANGED <<now, adapterType, adapterTTL, mgrTTL, hits, misses, call, ctx, ret, stat,
                 prev, lastWrite, calls, ops, mon>>

NextPrefetch ==
  \/ Tick
  \/ \E p \in Callers :
       \/ StartPrefetch(p)
       \/ PrefetchPage(p)
       \/ PrefetchStore(p)

SpecPrefetch == InitPrefetch /\ [][NextPrefetch]_vars

(***************************************************************************)
(* Properties.  Returned(p, op): caller p has returned from a call of op   *)
(* and has not started another; call, ret and stat describe that call.     *)
(***************************************************************************)
Returned(p, op) == pc[p] = "idle" /\ call[p].op = op

\* the TTL ttl of a write made at instant at has not elapsed at instant t
NotElapsed(ttl, at, t) == ttl <= 0 \/ t <= at + ttl

\* the TTL a Set with argument ttlArg asks for
AskedTTL(ttlArg) == IF ttlArg # 0 THEN ttlArg ELSE mgrTTL

\* C1: when adapter.Get inside Query comes back with a payload that decodes into T,
\* Query returns the value stored under the key with a nil error and the producer is
\* not called; no call both returns the cached value and calls the producer, and the
\* producer is called at most once.
C1_HitSkipsProducer ==
  \A p \in Callers :
    Returned(p, "Query") =>
      /\ stat[p].got = "data" =>
           /\ ret[p].src = "cache"
           /\ ret[p].err = NoErr
           /\ ret[p].val = lastWrite[call[p].key].val
           /\ stat[p].prod = 0
      /\ ret[p].src = "cache" => stat[p].prod = 0
      /\ stat[p].prod <= 1

C1_Witness ==
  \E p \in Callers :
    /\ Returned(p, "Query")
    /\ stat[p].got = "data"
    /\ ret[p].src = "cache"
    /\ ret[p].val = TVal("b")
    /\ lastWrite[call[p].key].via = "Set"

C3_GetAfterExpiry ==
  \A p \in Callers :
    (Returned(p, "Get") /\ adapterType = "memory") =>
      LET w == lastWrite[call[p].key]
      IN  (w.kind = "set" /\ w.via = "Set" /\ w.ttlArg > 0 /\ stat[p].at > w.at + w.ttlArg)
            => (stat[p].got = "nil" /\ ~ret[p].hit /\ ret[p].err = NoErr)

C3_Witness ==
  \E p \in Callers :
    /\ Returned(p, "Get")
    /\ adapterType = "memory"
    /\ stat[p].hadEntry
    /\ lastWrite[call[p].key].kind = "set"
    /\ lastWrite[call[p].key].ttlArg > 0
    /\ stat[p].at > lastWrite[call[p].key].at + lastWrite[call[p].key].ttlArg
    /\ stat[p].got = "nil"

\* C4: an entry written by Set(k, v, 0) expires at the instant of the write plus the
\* configured default TTL, and is never a non-expiring entry.
C4_ZeroTTLUsesDefault ==
  \A k \in Keys :
    LET w == lastWrite[k]
    IN  (/\ adapterType = "memory"
         /\ cache[k].present
         /\ w.kind = "set"
         /\ w.via = "Set"
         /\ w.ttlArg = 0)
        => (cache[k].expireAt # ZeroTime /\ cache[k].expireAt = w.at + mgrTTL)

\* C5: when the producer fails, Query returns the producer's error itself and the zero
\* value, issues no Set, and a key that had no entry when the call started has none
\* when it returns.
C5_ProducerFailureNotCached ==
  \A p \in Callers :
    (Returned(p, "Query") /\ stat[p].prod = 1 /\ stat[p].prodErr # NoErr) =>
      /\ ret[p].err = stat[p].prodErr
      /\ ret[p].val = ZeroT
      /\ stat[p].sets = 0
      /\ ~stat[p].hadEntry => ~cache[call[p].key].present

C5_Witness ==
  \E p \in Callers :
    /\ Returned(p, "Query")
    /\ call[p].useCache
    /\ stat[p].prod = 1
    /\ stat[p].prodErr = "errTimeout"
    /\ ret[p].err = "errTimeout"
    /\ ~stat[p].hadEntry
    /\ stat[p].got = "nil"

\* C6: a Query given a ticket with an empty token returns ErrInvalidTicket, and one
\* given a ticket with a token whose ExpiresAt is before the current time returns
\* ErrTicketExpired; in both cases, whatever the other options, the call makes no
\* adapter.Get, no adapter.Set, no monitor record and no producer call.
C6_TicketShortCircuits ==
  \A p \in Callers :
    (Returned(p, "Query") /\ call[p].ticket.given) =>
      /\ ret[p].err = IF call[p].ticket.token = "" THEN ErrInvalidTicket ELSE ErrTicketExpired
      /\ ret[p].val = ZeroT
      /\ stat[p].gets = 0
      /\ stat[p].sets = 0
      /\ stat[p].recs = 0
      /\ stat[p].prod = 0
      /\ hits = stat[p].h0
      /\ misses = stat[p].m0

C6_Witness ==
  \E p \in Callers :
    /\ Returned(p, "Query")
    /\ call[p].ticket = Ticket("tok", 1)
    /\ ret[p].err = ErrTicketExpired
    /\ call[p].useCache
    /\ stat[p].hadEntry

\* C7: when the producer succeeds, Query returns the producer's value and a nil error,
\* whether adapter.Set succeeded or failed.
C7_SetFailureInvisible ==
  \A p \in Callers :
    (Returned(p, "Query") /\ stat[p].prod = 1 /\ stat[p].prodErr = NoErr) =>
      /\ ret[p].err = NoErr
      /\ ret[p].val = stat[p].prodVal
      /\ ret[p].src = "producer"

C7_Witness ==
  \E p \in Callers :
    /\ Returned(p, "Query")
    /\ stat[p].prod = 1
    /\ stat[p].prodErr = NoErr
    /\ stat[p].sets = 1
    /\ stat[p].setErr # NoErr
    /\ ret[p].err = NoErr
    /\ ret[p].val = stat[p].prodVal

\* C8: when adapter.Get fails, or the payload it returns does not decode into T, Query
\* calls the producer once and returns what the producer returned: its error, or its
\* value with a nil error.
C8_ReadFailureIsMiss ==
  \A p \in Callers :
    (Returned(p, "Query") /\ stat[p].got \in {"err", "junk"}) =>
      /\ stat[p].prod = 1
      /\ ret[p].src = "producer"
      /\ ret[p].err = stat[p].prodErr
      /\ stat[p].prodErr = NoErr => ret[p].val = stat[p].prodVal

C8_Witness ==
  \E p \in Callers :
    /\ Returned(p, "Query")
    /\ stat[p].got = "junk"
    /\ stat[p].prod = 1
    /\ ret[p].val = TVal("a")

C8_WitnessGetError ==
  \E p \in Callers :
    /\ Returned(p, "Query")
    /\ stat[p].got = "err"
    /\ stat[p].prod = 1
    /\ ret[p].err = "errDB"

\* the second of two consecutive Query calls of a caller on the same key, the first
\* having found the key absent and returned without error, with caching on in both
\* and the TTL of the first not elapsed when the second reads the clock
SecondQuery(p) ==
  /\ Returned(p, "Query")
  /\ call[p].useCache
  /\ ~call[p].ticket.given
  /\ prev[p].fill
  /\ prev[p].key = call[p].key
  /\ NotElapsed(prev[p].ttl, prev[p].at, stat[p].at)

\* the first call called the producer once and returned its value; the second returned
\* the same value without calling the producer; the monitor counts one miss and one
\* hit more than before the first call
OneMissThenOneHit(p) ==
  /\ prev[p].prod = 1
  /\ prev[p].val = prev[p].prodVal
  /\ ret[p].err = NoErr
  /\ ret[p].val = prev[p].val
  /\ stat[p].prod = 0
  /\ hits = prev[p].h0 + 1
  /\ misses = prev[p].m0 + 1

C10_CancelledQueryFails ==
  \A p \in Callers :
    (Returned(p, "Query") /\ ctx[p] /\ ~call[p].ticket.given) =>
      /\ ret[p].err = ErrCanceled
      /\ ~(stat[p].sets = 1 /\ stat[p].setErr = NoErr)

\* the operations logged so far are exactly one Incr by every caller, all on key k,
\* and k was absent before the first of them
OnlyIncrsOn(k) ==
  /\ Len(ops) = Cardinality(AllCallers)
  /\ \A i \in 1..Len(ops) : ops[i].op = "Incr" /\ ops[i].key = k
  /\ \A i, j \in 1..Len(ops) : ops[i].by = ops[j].by => i = j
  /\ ~ops[1].before[k].present

\* C11: when every one of the N callers has issued one Incr on the same, initially
\* absent counter key and nothing else touched the store, the counter holds exactly N
\* and the values the callers got back are 1..N, each once, whatever the order in
\* which the callers took the lock.
C11_ConcurrentIncr ==
  \A k \in StoreKeys :
    OnlyIncrsOn(k) =>
      /\ cache[k].present
      /\ UnmarshalInt(cache[k].data) = Cardinality(AllCallers)
      /\ {ops[i].n : i \in 1..Len(ops)} = 1..Cardinality(AllCallers)
      /\ {ret[p].val.n : p \in AllCallers} = 1..Cardinality(AllCallers)

C11_Witness ==
  /\ OnlyIncrsOn(K1)
  /\ ops[1].by = "c2"
  /\ cache[K1].data = <<"2">>
  /\ ret["c1"].val.n = 2

\* the i-th logged call of the codec is a call of fn
IsCall(i, fn) == i \in 1..Len(pg) /\ pg[i].fn = fn

\* C12: two calls of GenerateCacheKey with the same resource, the same filter map and
\* the same pagination parameters return the same key, whatever the order in which the
\* map yielded its names.
C12_KeyIgnoresFilterOrder ==
  \A i, j \in 1..Len(pg) :
    (/\ IsCall(i, "GenerateCacheKey") /\ IsCall(j, "GenerateCacheKey")
     /\ pg[i].resource = pg[j].resource
     /\ pg[i].filters = pg[j].filters
     /\ pg[i].params = pg[j].params)
    => pg[i].out = pg[j].out

C12_Witness ==
  /\ IsCall(1, "GenerateCacheKey") /\ IsCall(2, "GenerateCacheKey")
  /\ pg[1].resource = pg[2].resource
  /\ pg[1].filters = pg[2].filters
  /\ pg[1].params = pg[2].params
  /\ pg[1].iter = <<<<"c">>, <<"b">>>>
  /\ pg[2].iter = <<<<"b">>, <<"c">>>>
  /\ pg[1].out = pg[2].out

\* the query a call of GenerateCacheKey stands for: the resource, the filter set and
\* the normalized page and page size
QueryOf(c) ==
  <<c.resource, c.filters, NormalizePaginationParams(c.params).Page,
    NormalizePaginationParams(c.params).PageSize>>

\* C13: two calls of GenerateCacheKey for distinct queries (resource, filter set,
\* normalized page, normalized page size) never return the same key.
C13_DistinctQueriesDistinctKeys ==
  \A i, j \in 1..Len(pg) :
    (/\ IsCall(i, "GenerateCacheKey") /\ IsCall(j, "GenerateCacheKey")
     /\ QueryOf(pg[i]) # QueryOf(pg[j]))
    => pg[i].out # pg[j].out

\* the two calls differ in the resource name alone
OnlyResourceDiffers(c, d) ==
  /\ c.resource # d.resource
  /\ c.filters = d.filters
  /\ QueryOf(c)[3] = QueryOf(d)[3] /\ QueryOf(c)[4] = QueryOf(d)[4]

\* the two calls differ in the value of one filter alone, and the two values
\* serialize differently
OnlyOneFilterValueDiffers(c, d) ==
  /\ c.resource = d.resource
  /\ DOMAIN c.filters = DOMAIN d.filters
  /\ \E k \in DOMAIN c.filters :
       /\ Marshal(c.filters[k]).payload # Marshal(d.filters[k]).payload
       /\ \A other \in DOMAIN c.filters \ {k} : c.filters[other] = d.filters[other]
  /\ QueryOf(c)[3] = QueryOf(d)[3] /\ QueryOf(c)[4] = QueryOf(d)[4]

\* the two calls differ in the normalized page alone
OnlyPageDiffers(c, d) ==
  /\ c.resource = d.resource
  /\ c.filters = d.filters
  /\ QueryOf(c)[3] # QueryOf(d)[3] /\ QueryOf(c)[4] = QueryOf(d)[4]

\* the two calls differ in the normalized page size alone
OnlySizeDiffers(c, d) ==
  /\ c.resource = d.resource
  /\ c.filters = d.filters
  /\ QueryOf(c)[3] = QueryOf(d)[3] /\ QueryOf(c)[4] # QueryOf(d)[4]

\* C14: two calls of GenerateCacheKey that differ in exactly one component (the
\* resource name, the value of one filter, the normalized page or the normalized page
\* size) return different keys.
C14_OneChangeChangesKey ==
  \A i, j \in 1..Len(pg) :
    (/\ IsCall(i, "GenerateCacheKey") /\ IsCall(j, "GenerateCacheKey")
     /\ \/ OnlyResourceDiffers(pg[i], pg[j])
        \/ OnlyOneFilterValueDiffers(pg[i], pg[j])
        \/ OnlyPageDiffers(pg[i], pg[j])
        \/ OnlySizeDiffers(pg[i], pg[j]))
    => pg[i].out # pg[j].out

C14_Witness ==
  /\ IsCall(1, "GenerateCacheKey") /\ IsCall(2, "GenerateCacheKey")
  /\ OnlyOneFilterValueDiffers(pg[1], pg[2])
  /\ DOMAIN pg[1].filters = FilterNames
  /\ pg[1].out # pg[2].out

\* C15: the result of NormalizePaginationParams is a fixed point of it, its page is at
\* least 1 and its page size lies in 1..MaxPageSize; a nil argument and a non-positive
\* page give page 1, a nil argument and a non-positive page size give page size 20,
\* and a positive page and a page size in 1..MaxPageSize are kept.
C15_NormalizeIdempotentBounded ==
  \A i \in 1..Len(pg) :
    IsCall(i, "NormalizePaginationParams") =>
      LET in == pg[i].params
          out == pg[i].out
      IN  /\ NormalizePaginationParams(out) = out
          /\ ~out.nil
          /\ out.Page >= 1
          /\ out.PageSize \in 1..MaxPageSize
          /\ (in.nil \/ in.Page <= 0) => out.Page = 1
          /\ (in.nil \/ in.PageSize <= 0) => out.PageSize = 20
          /\ (~in.nil /\ in.Page > 0) => out.Page = in.Page
          /\ (~in.nil /\ in.PageSize \in 1..MaxPageSize) => out.PageSize = in.PageSize

C15_Witness ==
  /\ IsCall(1, "NormalizePaginationParams") /\ IsCall(2, "NormalizePaginationParams")
  /\ pg[1].params = Params(0 - 1, MaxPageSize + 1, FALSE)
  /\ pg[1].out = Params(1, MaxPageSize, FALSE)
  /\ pg[2].params = NilParams
  /\ pg[2].out = Params(1, 20, TRUE)

\* C16: a call InvalidateCacheOnUpdate(resource) leaves no stored key that starts with
\* resource + ":", leaves every other key with the payload and the expiry it had, and
\* returns the number of keys it removed.
C16_InvalidateRemovesPrefix ==
  \A i \in 1..Len(ops) :
    ops[i].op = "Invalidate" =>
      LET prefix == ops[i].key \o <<":">>
          stored == {k \in StoreKeys : ops[i].before[k].present}
          removed == {k \in stored : HasPrefix(k, prefix)}
      IN  /\ \A k \in removed : ~ops[i].after[k].present
          /\ \A k \in StoreKeys \ removed : ops[i].after[k] = ops[i].before[k]
          /\ ops[i].n = Cardinality(removed)

C16_Witness ==
  /\ Len(ops) = 1
  /\ ops[1].op = "Invalidate"
  /\ ops[1].key = <<"u">>
  /\ \A k \in StoreKeys : ops[1].before[k].present
  /\ ops[1].before[K3].expireAt # ZeroTime
  /\ ops[1].n = 2
  /\ cache[K3] = ops[1].before[K3]
  /\ ~cache[K1].present /\ ~cache[K2].present

\* the logged call produced a pagination response (in its field out)
HasResponse(c) ==
  \/ c.fn = "BuildPaginationResponse"
  \/ c.fn = "QueryWithPagination" /\ c.err = NoErr /\ (c.fromCache \/ c.prod > 0)

\* the response was computed from data handed over by the caller or the producer
Computed(c) ==
  \/ c.fn = "BuildPaginationResponse"
  \/ c.fn = "QueryWithPagination" /\ c.err = NoErr /\ ~c.fromCache /\ c.prod > 0

IsCeiling(n, total, size) == n * size >= total /\ (n - 1) * size < total

\* C18: the TotalPages of a response built by BuildPaginationResponse for a total >= 0
\* is ceil(total / page_size), page_size being the normalized page size.
C18_TotalPagesIsCeiling ==
  \A i \in 1..Len(pg) :
    (IsCall(i, "BuildPaginationResponse") /\ pg[i].total >= 0)
    => IsCeiling(pg[i].out.TotalPages, pg[i].total, pg[i].out.PageSize)

\* the same, for the totals whose sum with page_size - 1 is still an int64
C18_CeilingWithoutOverflow ==
  \A i \in 1..Len(pg) :
    (/\ IsCall(i, "BuildPaginationResponse")
     /\ pg[i].total >= 0
     /\ pg[i].total + pg[i].out.PageSize - 1 <= MaxInt64)
    => IsCeiling(pg[i].out.TotalPages, pg[i].total, pg[i].out.PageSize)

\* C19: the monitor's counters equal the numbers of RecordHit and RecordMiss calls made
\* since the last Reset, whichever callers made them and in whatever order; and a
\* HitRatio read after h hits and m misses returned h / (h + m), or 0 when h + m = 0.
C19_HitRatioExact ==
  /\ hits = mon.h
  /\ misses = mon.m
  /\ mon.read =>
       IF mon.readH + mon.readM = 0
         THEN mon.ratio = <<0, 1>>
         ELSE /\ mon.ratio[2] > 0
              /\ mon.ratio[1] * (mon.readH + mon.readM) = mon.readH * mon.ratio[2]

C19_Witness ==
  /\ mon.read
  /\ mon.readH = 2 /\ mon.readM = 1
  /\ mon.ratio = <<2, 3>>
  /\ hits = 2 /\ misses = 1

\* the TTL the claim expects Query to hand to adapter.Set
ExpectedSetTTL(c) == IF c.withTTL /\ c.ttlArg # 0 THEN c.ttlArg ELSE mgrTTL

\* C20: when Query writes the producer's result back, the TTL it hands to adapter.Set
\* is the TTL of WithTTL if that option was given with a non-zero duration, and the
\* manager's default TTL otherwise, whatever entry the key held before and whatever
\* TTL the caller's previous call used; the entry stored expires accordingly.
C20_QueryTTLChoice ==
  \A p \in Callers :
    (Returned(p, "Query") /\ stat[p].sets = 1) =>
      /\ stat[p].setTTL = ExpectedSetTTL(call[p])
      /\ stat[p].setErr = NoErr =>
           cache[call[p].key].expireAt =
             (IF AdapterSetTTL(ExpectedSetTTL(call[p])) > 0
                THEN stat[p].at + AdapterSetTTL(ExpectedSetTTL(call[p]))
                ELSE ZeroTime)

\* a Query with WithTTL(-1) writes over the entry left by a Query with the default TTL
C20_Witness ==
  \E p \in Callers :
    /\ Returned(p, "Query") /\ stat[p].sets = 1 /\ stat[p].setErr = NoErr
    /\ mgrTTL = MaxTTL
    /\ call[p].withTTL /\ call[p].ttlArg = 0 - 1
    /\ stat[p].setTTL = 0 - 1
    /\ prev[p].fill /\ prev[p].stored /\ prev[p].key = call[p].key /\ prev[p].ttl = MaxTTL
    /\ cache[call[p].key].expireAt = ZeroTime

\* C21: a Get removes an entry from the map only if the entry that is in the map at
\* the moment of the removal is expired, so an entry a Set completed after Get's read
\* and before its removal survives.
C21_LazyExpiryRechecks ==
  [][\A p \in AllCallers :
       (pc[p] = "get_check" /\ pc'[p] = "idle") =>
         \A k \in Keys : cache'[k] # cache[k] => Expired(cache[k], now)]_vars

\* C22: a Query that reaches adapter.Get records exactly one observation; it records a
\* hit exactly when it returns the cached value without calling the producer, and a
\* miss whenever the producer is called; a Query with caching off records nothing.
C22_RecordMatchesPath ==
  \A p \in Callers :
    Returned(p, "Query") =>
      LET h == hits - stat[p].h0
          m == misses - stat[p].m0
      IN  /\ stat[p].gets = 1 =>
               /\ h + m = 1
               /\ h = 1 <=> (ret[p].src = "cache" /\ stat[p].prod = 0)
               /\ stat[p].prod > 0 => m = 1
          /\ ~call[p].useCache => (h = 0 /\ m = 0)

\* both callers have returned from a Query of key k that found nothing, called the
\* producer and stored the result
BothMissedAndWrote(k) ==
  \A p \in AllCallers :
    /\ Returned(p, "Query")
    /\ call[p].key = k
    /\ stat[p].got = "nil"
    /\ ~stat[p].hadEntry
    /\ stat[p].prod = 1
    /\ stat[p].prodErr = NoErr
    /\ stat[p].sets = 1
    /\ stat[p].setErr = NoErr

\* C23: Query does not deduplicate concurrent misses.  Whenever two concurrent Query
\* calls on one absent key both missed, both called the producer and both wrote, each
\* caller returns its own producer's value, both misses are recorded, and the key holds
\* the entry of the Set that took the write lock last.
C23_LastWriterWins ==
  \A k \in Keys :
    BothMissedAndWrote(k) =>
      /\ \A p \in AllCallers :
           ret[p].err = NoErr /\ ret[p].src = "producer" /\ ret[p].val = stat[p].prodVal
      /\ misses = 2 /\ hits = 0
      /\ lastWrite[k].kind = "set" /\ lastWrite[k].via = "Query"
      /\ cache[k].present
      /\ cache[k].data = Marshal(lastWrite[k].val).payload
      /\ \E p \in AllCallers :
           /\ lastWrite[k].val = stat[p].prodVal
           /\ lastWrite[k].at = stat[p].at
           /\ cache[k] = AdapterSetPrepare(stat[p].prodVal, stat[p].setTTL, stat[p].at).entry

C23_Witness ==
  /\ BothMissedAndWrote(K1)
  /\ stat["c1"].prodVal # stat["c2"].prodVal
  /\ cache[K1].data = Marshal(stat["c1"].prodVal).payload

\* the payload is a JSON integer
HoldsInteger(data) ==
  IsDigits(data) \/ (Len(data) > 1 /\ data[1] = "-" /\ IsDigits(Tail(data)))

\* C24: Incr/Decr of a key whose entry is present and unexpired keeps the entry's
\* expiry instant and moves its integer value by +1/-1; on an absent or expired key the
\* result is +1/-1 and the new entry has no expiry; no other key changes.
C24_IncrKeepsExpiry ==
  \A i \in 1..Len(ops) :
    ops[i].op \in {"Incr", "Decr"} =>
      LET k == ops[i].key
          b == ops[i].before[k]
          a == ops[i].after[k]
          delta == IF ops[i].op = "Incr" THEN 1 ELSE 0 - 1
          live == b.present /\ ~Expired(b, ops[i].at)
      IN  /\ a.present
          /\ a.data = Marshal(IntVal(ops[i].n)).payload
          /\ live => /\ a.expireAt = b.expireAt
                     /\ HoldsInteger(b.data) => ops[i].n = UnmarshalInt(b.data) + delta
          /\ ~live => /\ a.expireAt = ZeroTime
                      /\ ops[i].n = delta
          /\ \A k2 \in StoreKeys \ {k} : ops[i].after[k2] = ops[i].before[k2]

C24_Witness ==
  /\ Len(ops) = 2
  /\ ops[1].op = "Incr" /\ ops[1].key = K1
  /\ ops[1].before[K1] = Entry(<<"7">>, 2)
  /\ ops[1].at = 2
  /\ ops[1].after[K1] = Entry(<<"8">>, 2)
  /\ ops[2].op = "Decr" /\ ops[2].key = K1
  /\ ops[2].at = 3
  /\ ops[2].after[K1] = Entry(<<"-", "1">>, ZeroTime)
  /\ ops[2].before[K2].present

\* C25: the answer of Exists(k) is true exactly when a Get at the same instant on the
\* entry Exists read would return a payload: false for an absent key and for an entry
\* that is expired but still in the map, true for an entry without expiry.
C25_ExistsAgreesWithGet ==
  [][\A p \in Callers :
       (pc[p] = "exists_check" /\ pc'[p] = "idle") =>
         LET e == snap[p]
         IN  /\ ret'[p].err = NoErr
             /\ ret'[p].hit <=> AdapterGet(e, now).found
             /\ (e.present /\ Expired(e, now)) => ~ret'[p].hit
             /\ (e.present /\ e.expireAt = ZeroTime) => ret'[p].hit
             /\ ~e.present => ~ret'[p].hit]_vars

C25_Witness ==
  \E p \in Callers :
    /\ Returned(p, "Exists")
    /\ stat[p].at = now
    /\ cache[call[p].key].present
    /\ Expired(cache[call[p].key], now)
    /\ ~ret[p].hit
    /\ cache[K1].expireAt = ZeroTime /\ cache[K1].present
    /\ AdapterExists(cache[K1], now)

\* C26: a Get or an Exists that finds the entry of its key expired leaves the key out of
\* the map, so that Stats no longer counts it; an expired entry no such read touched
\* stays in the map.
C26_ExpiredReclaimedOnTouch ==
  [][/\ \A p \in Callers :
          (/\ pc[p] \in {"get_check", "exists_check"}
           /\ pc'[p] = "idle"
           /\ snap[p].present
           /\ Expired(snap[p], now)) =>
             /\ ~cache'[call[p].key].present
             /\ AdapterStats(cache', now).total_items = AdapterStats(cache, now).total_items - 1
             /\ AdapterStats(cache', now).expired_items
                  = AdapterStats(cache, now).expired_items - 1
     /\ \A k \in Keys :
          (cache[k].present /\ ~cache'[k].present) =>
            \E p \in Callers :
              pc[p] \in {"get_check", "exists_check"} /\ pc'[p] = "idle" /\ call[p].key = k]_vars

\* the pattern without one trailing wildcard
LiteralPortion(pattern) ==
  IF Len(pattern) > 0 /\ pattern[Len(pattern)] = "*"
    THEN SubSeq(pattern, 1, Len(pattern) - 1)
    ELSE pattern

\* key k starts with the string pre
StartsWith(k, pre) == \E n \in 0..Len(k) : SubSeq(k, 1, n) = pre

\* the logged DeletePattern removed exactly the stored keys that start with the
\* pattern's literal portion, returned their number and left the other keys alone
RemovedByPrefix(o) ==
  LET stored == {k \in StoreKeys : o.before[k].present}
      removed == {k \in stored : StartsWith(k, LiteralPortion(o.key))}
  IN  /\ \A k \in removed : ~o.after[k].present
      /\ \A k \in StoreKeys \ removed : o.after[k] = o.before[k]
      /\ o.n = Cardinality(removed)

\* C27 as stated: for every pattern, the empty one included, DeletePattern removes
\* exactly the stored keys that start with the pattern's literal portion, returns their
\* number and leaves every other key unchanged.
C27_Original ==
  \A i \in 1..Len(ops) : ops[i].op = "DeletePattern" => RemovedByPrefix(ops[i])

\* C27 (amended): for every non-empty pattern (a bare "*" included) DeletePattern
\* removes exactly the stored keys that start with the pattern's literal portion,
\* returns their number and leaves every other key unchanged; for the empty pattern it
\* removes nothing and returns 0.
C27_DeletePatternExact ==
  \A i \in 1..Len(ops) :
    ops[i].op = "DeletePattern" =>
      IF ops[i].key = <<>>
        THEN ops[i].after = ops[i].before /\ ops[i].n = 0
        ELSE RemovedByPrefix(ops[i])

C27_Witness ==
  /\ Len(ops) = 2
  /\ ops[1].key = <<"u", ":", "*">>
  /\ \A k \in StoreKeys : ops[1].before[k].present
  /\ ops[1].n = 2
  /\ ops[1].after[K3] = ops[1].before[K3]
  /\ ops[2].key = <<>>
  /\ ops[2].n = 0
  /\ cache[K3].present

\* C28: QueryWithPagination with use_cache true that reads a stored, unexpired envelope
\* that decodes returns a response marked FromCache with the stored Data, Total and
\* DataHash and does not call the producer; with use_cache false it never reads or
\* writes the store and always calls the producer; when the producer fails it returns
\* the error and stores nothing.
C28_PagedCachePaths ==
  [][\A p \in Callers :
       LET c == pg'[Len(pg')]
           u == UnmarshalEnvelope(snap[p].data)
       IN  /\ (/\ pc[p] = "pq_check" /\ pc'[p] # "pq_check"
               /\ snap[p].present /\ ~Expired(snap[p], now)
               /\ u.err = NoErr) =>
                 /\ pc'[p] = "idle"
                 /\ c.err = NoErr
                 /\ c.fromCache /\ c.out.FromCache
                 /\ c.out.IsNil = u.env.IsNil
                 /\ c.out.Data = u.env.Data
                 /\ c.out.Total = u.env.Total
                 /\ c.out.DataHash = u.env.DataHash
                 /\ c.prod = 0 /\ c.sets = 0
                 /\ cache' = cache
           /\ (/\ call[p].op = "QueryWithPagination" /\ ~call[p].useCache
               /\ pc[p] # "idle") =>
                 /\ cache' = cache
                 /\ pc'[p] \in {pc[p], "idle"}
                 /\ pc'[p] = "idle" =>
                      c.gets = 0 /\ c.sets = 0 /\ ~c.stored /\ c.prod = 1 /\ ~c.fromCache
           /\ (pc[p] = "pq_produce" /\ pc'[p] # "pq_produce" /\ c.err # NoErr) =>
                 /\ pc'[p] = "idle"
                 /\ c.err \in ProducerErrs
                 /\ c.out = PgCall("QueryWithPagination").out
                 /\ c.sets = 0 /\ ~c.stored
                 /\ cache' = cache]_vars

C28_Witness ==
  /\ Len(pg) = 2
  /\ pc["c1"] = "idle"
  /\ pg[1].key = WarmKey
  /\ pg[1].fromCache
  /\ pg[1].prod = 0
  /\ pg[1].out.Data = <<TVal("a")>>
  /\ pg[1].out.Total = 3
  /\ pg[1].out.DataHash = <<"x">>
  /\ pg[1].out.DataHash # GenerateDataHash(FALSE, <<TVal("a")>>)
  /\ pg[2].params = Params(1, 2, FALSE)
  /\ pg[2].key = WarmKey
  /\ pg[2].prod = 1
  /\ pg[2].err = NoErr
  /\ cache[WarmKey].data = WarmPayload

\* the items of page page when the list is cut into pages of size size
ItemsOfPage(items, page, size) ==
  [i \in 1..(IF page * size > Len(items)
               THEN (IF Len(items) > (page - 1) * size THEN Len(items) - (page - 1) * size
                     ELSE 0)
               ELSE size) |-> items[(page - 1) * size + i]]

\* C29: every entry Prefetch stored is under GenerateCacheKey(resource, nil, {page,
\* pageSize}) and holds exactly the items of that page for the page size written in the
\* key (the normalized page size, at most MaxPageSize), whatever pageSize was passed;
\* and Prefetch hands at most batchSize pages to the store.
C29_PrefetchMatchesKey ==
  (Len(pg) = 1 /\ pg[1].fn = "Prefetch") =>
    LET c == pg[1]
    IN  /\ Len(c.writes) <= c.batchSize
        /\ \A i \in 1..Len(c.writes) :
             LET w == c.writes[i]
                 size == NormalizePaginationParams(Params(w.page, c.pageSize, TRUE)).PageSize
                 expected == ItemsOfPage(c.items, w.page, size)
             IN  /\ w.page = i
                 /\ w.key = PrefetchKey(c.resource, w.page, c.pageSize)
                 /\ size <= MaxPageSize
                 /\ c.page > w.page =>
                      /\ cache[w.key].present
                      /\ UnmarshalEnvelope(cache[w.key].data).err = NoErr
                      /\ UnmarshalEnvelope(cache[w.key].data).env.Data = expected
                      /\ UnmarshalEnvelope(cache[w.key].data).env.Total = Len(c.items)

============================================================================
